---- MODULE Spec2Model ----
(***************************************************************************)
(* Model of the scan orchestration of 0xCypherpunkAI:                      *)
(*   SecurityScanningService (core/security-scanning-service.ts),          *)
(*   VoteEngine (core/vote-engine.ts) and the heuristic analysis plugin    *)
(*   (plugins/security-analysis-plugin.ts).                                *)
(* One action per resumption of an async function: the code between two    *)
(* awaits runs to completion on the single JavaScript thread, so it is     *)
(* one atomic step.                                                        *)
(***************************************************************************)
EXTENDS Integers, Sequences, FiniteSets, TLC

VARIABLES
  runtimeAgents,  \* what runtime.getAgents() resolves to
  activeScans,    \* SecurityScanningService.activeScans : scanId -> ScanResult
  exec,           \* per scan: the position and the locals of executeScan
  pendingVotes,   \* VoteEngine.pendingVotes : findingId -> AgentVote[]
  votesSubmitted, \* number of submitAgentVote calls made so far
  hist,           \* per scan: record of past events (history variable)
  config,         \* VoteEngine.config
  voteTimeouts,   \* VoteEngine.voteTimeouts : findingId -> timer handle
  timers,         \* the timers created by setTimeout and setInterval, by handle
  input,          \* the argument of a function applied on its own
  output,         \* and its results: none, or the one of the last application
  githubCache,    \* SecurityScanningService.githubCache : cacheKey -> item
  calls,          \* the calls of fetchFromGitHub made so far, each with its position
  cache,          \* CacheService.cache : the entries, in insertion order
  now             \* Date.now(), in milliseconds since the services started

vars == <<runtimeAgents, activeScans, exec, pendingVotes, votesSubmitted, hist,
          config, voteTimeouts, timers, input, output,
          githubCache, calls, cache, now>>

\* The variables of the two caches.
cacheVars == <<githubCache, calls, cache, now>>

----------------------------------------------------------------------------
(* Bounds of the model *)

MaxScans == 1
MaxAgents == 4
MaxVotes == 2
MaxVoteList == 5
MaxResults == 3
MaxTimers == 3
MaxCalls == 2
MaxTicks == 4
MaxCacheSize == 2
MaxHits == 1

(* Program constants *)

CONCURRENCY_LIMIT == 3
ProgressInitializing == 5
ProgressFetched == 15
ProgressVerified == 30
ProgressSetup == 35
ProgressAnalysisSpan == 50
ProgressAnalysed == 85
ProgressVoted == 95
ProgressEnd == 100

\* 10 * 60 * 1000, 5 * 60 * 1000 and 30 * 60 * 1000 milliseconds
GITHUB_CACHE_TTL == 600000
CLEANUP_INTERVAL == 300000
DEFAULT_TTL == 1800000

None == "undefined"

----------------------------------------------------------------------------
(* Generic helpers *)

Min(a, b) == IF a <= b THEN a ELSE b

RECURSIVE GCD(_, _)
GCD(a, b) == IF b = 0 THEN a ELSE GCD(b, a % b)

\* A JavaScript number that need not be an integer, kept exact as a reduced
\* fraction <<numerator, denominator>>.
Rat(n, d) == LET g == GCD(n, d) IN <<n \div g, d \div g>>
Num(n) == <<n, 1>>
RatLeq(p, q) == p[1] * q[2] <= q[1] * p[2]
RatLess(p, q) == p[1] * q[2] < q[1] * p[2]
RatMin(p, q) == IF RatLeq(p, q) THEN p ELSE q

\* Math.round of the non-negative fraction n / d
Round(n, d) == (2 * n + d) \div (2 * d)

\* Math.ceil of the non-negative fraction n / d
Ceil(n, d) == (n + d - 1) \div d

\* The element of a singleton set.  An expression is given a name by
\* { body : name \in {expression} }, so that it is evaluated once.
The(S) == CHOOSE x \in S : TRUE

\* The sequence f, an array with its elements computed.
Array(f) == f \o <<>>

\* The concatenation of the sequences ss[1], ..., ss[k].
RECURSIVE FlattenTo(_, _)
FlattenTo(ss, k) ==
  IF k = 0 THEN <<>>
  ELSE The({ prev \o ss[k] : prev \in { FlattenTo(ss, k - 1) } })
Flatten(ss) == The({ FlattenTo(s, Len(s)) : s \in { Array(ss) } })

----------------------------------------------------------------------------
(* The numbers of the vote engine.  A JavaScript number is an IEEE 754
   double; the sums, products and quotients of calculateConsensus are each
   rounded to the nearest double (ties to even).  The doubles modelled are
   the finite ones that are not negative and neither overflow nor are
   subnormal: 0, and m * 2^e with 2^52 <= m < 2^53.  A mantissa is a natural
   number held as its digits in base 2^15, the least significant first,
   without leading zero digits. *)

LimbBits == 15
LimbBase == 2 ^ LimbBits
MantissaBits == 53

BLimb(x, i) == IF i <= Len(x) THEN x[i] ELSE 0

RECURSIVE BFromInt(_)
BFromInt(n) == IF n = 0 THEN <<>> ELSE <<n % LimbBase>> \o BFromInt(n \div LimbBase)

RECURSIVE BToInt(_)
BToInt(x) == IF x = <<>> THEN 0 ELSE x[1] + LimbBase * BToInt(Tail(x))

RECURSIVE BTrim(_)
BTrim(x) ==
  IF x = <<>> \/ x[Len(x)] # 0 THEN x ELSE BTrim(SubSeq(x, 1, Len(x) - 1))

RECURSIVE BAddFrom(_, _, _, _)
BAddFrom(x, y, i, carry) ==
  IF i > Len(x) /\ i > Len(y)
  THEN IF carry = 0 THEN <<>> ELSE <<carry>>
  ELSE <<(BLimb(x, i) + BLimb(y, i) + carry) % LimbBase>> \o
       BAddFrom(x, y, i + 1, (BLimb(x, i) + BLimb(y, i) + carry) \div LimbBase)

BAdd(x, y) == BAddFrom(x, y, 1, 0)

\* x * d for a digit d
RECURSIVE BMulDigitFrom(_, _, _, _)
BMulDigitFrom(x, d, i, carry) ==
  IF i > Len(x)
  THEN IF carry = 0 THEN <<>> ELSE <<carry>>
  ELSE <<(x[i] * d + carry) % LimbBase>> \o
       BMulDigitFrom(x, d, i + 1, (x[i] * d + carry) \div LimbBase)

BMulDigit(x, d) == IF d = 0 THEN <<>> ELSE BMulDigitFrom(x, d, 1, 0)

BShiftLimbs(x, k) == IF x = <<>> THEN <<>> ELSE [i \in 1..k |-> 0] \o x

RECURSIVE BMulFrom(_, _, _)
BMulFrom(x, y, i) ==
  IF i > Len(y) THEN <<>>
  ELSE BAdd(BShiftLimbs(BMulDigit(x, y[i]), i - 1), BMulFrom(x, y, i + 1))

BMul(x, y) == BMulFrom(x, y, 1)

\* x * 2^n
BShl(x, n) == BShiftLimbs(BMulDigit(x, 2 ^ (n % LimbBits)), n \div LimbBits)

\* Quotient and remainder of x by d, 0 < d <= 2^15, from the digits 1..i of
\* x with the remainder r of the higher digits.
RECURSIVE BDivFrom(_, _, _, _)
BDivFrom(x, d, i, r) ==
  IF i = 0 THEN [q |-> <<>>, r |-> r]
  ELSE The({ [q |-> Append(rest.q, (r * LimbBase + x[i]) \div d), r |-> rest.r] :
             rest \in { BDivFrom(x, d, i - 1, (r * LimbBase + x[i]) % d) } })

BDivSmall(x, d) ==
  The({ [q |-> BTrim(qr.q), r |-> qr.r] : qr \in { BDivFrom(x, d, Len(x), 0) } })

\* floor(x / 2^n)
BShr(x, n) ==
  IF n \div LimbBits >= Len(x) THEN <<>>
  ELSE BDivSmall(SubSeq(x, n \div LimbBits + 1, Len(x)), 2 ^ (n % LimbBits)).q

\* Bit k of x, the least significant being bit 0.
BBit(x, k) == (BLimb(x, k \div LimbBits + 1) \div 2 ^ (k % LimbBits)) % 2

\* Some bit of x below bit k is set.
BLowBits(x, k) == \E j \in 0..k - 1 : BBit(x, j) = 1

BBitLen(x) ==
  IF x = <<>> THEN 0
  ELSE LimbBits * (Len(x) - 1) +
       (CHOOSE b \in 1..LimbBits : 2 ^ (b - 1) <= x[Len(x)] /\ x[Len(x)] < 2 ^ b)

DZero == [m |-> <<>>, e |-> 0]

\* The double nearest to (n + f) * 2^e, ties to even, where 0 <= f < 1 and
\* sticky tells f # 0; with sticky, n has more than MantissaBits bits.
DRoundAt(n, e, sticky, s) ==
  The({ The({ IF BBitLen(q2) > MantissaBits
              THEN [m |-> BShr(q2, 1), e |-> e + s + 1]
              ELSE [m |-> q2, e |-> e + s] :
              q2 \in { IF BBit(n, s - 1) = 1 /\ (sticky \/ BLowBits(n, s - 1) \/ BBit(q, 0) = 1)
                       THEN BAdd(q, <<1>>) ELSE q } }) :
        q \in { BShr(n, s) } })

DRound(n, e, sticky) ==
  The({ IF len = 0 THEN DZero
        ELSE IF len <= MantissaBits
        THEN [m |-> BShl(n, MantissaBits - len), e |-> e - (MantissaBits - len)]
        ELSE DRoundAt(n, e, sticky, len - MantissaBits) :
        len \in { BBitLen(n) } })

DFromInt(n) == DRound(BFromInt(n), 0, FALSE)

\* x * y
DMul(x, y) == DRound(BMul(x.m, y.m), x.e + y.e, FALSE)

\* x + y
DAdd(x, y) ==
  IF x.m = <<>> THEN y
  ELSE IF y.m = <<>> THEN x
  ELSE The({ DRound(BAdd(BShl(x.m, x.e - e), BShl(y.m, y.e - e)), e, FALSE) :
             e \in { Min(x.e, y.e) } })

\* x / d for an integer 0 < d <= 2^15: the quotient is taken with 18 more
\* bits than the mantissa has, and the remainder tells whether it is exact.
GuardBits == 18
DDivInt(x, d) ==
  The({ DRound(qr.q, x.e - GuardBits, qr.r # 0) :
        qr \in { BDivSmall(BShl(x.m, GuardBits), d) } })

\* The double written a / b, which is also the double of the decimal literal
\* that equals a / b (0.6 is DFromRat(<<3, 5>>)).
DFromRat(q) == DDivInt(DFromInt(q[1]), q[2])

\* x <= y for mantissas
BLeq(x, y) ==
  \/ Len(x) < Len(y)
  \/ /\ Len(x) = Len(y)
     /\ \A i \in 1..Len(x) : x[i] > y[i] => \E j \in i + 1..Len(x) : x[j] < y[j]

\* x <= y
DLeq(x, y) ==
  IF x.m = <<>> THEN TRUE
  ELSE IF y.m = <<>> THEN FALSE
  ELSE IF x.e # y.e THEN x.e < y.e
  ELSE BLeq(x.m, y.m)

\* Math.round(x): the integer nearest to x, a tie going up.
MathRound(x) ==
  IF x.m = <<>> THEN 0
  ELSE IF x.e >= 0 THEN BToInt(BShl(x.m, x.e))
  ELSE BToInt(BShr(BAdd(x.m, BShl(<<1>>, -x.e - 1)), -x.e))

----------------------------------------------------------------------------
(* plugins/security-analysis-plugin.ts *)

\* The checks run by performGeneralHeuristicAnalysis, in the order their
\* findings are concatenated.  title, description and recommendation are
\* fixed per check and left out.
Checks == <<
  [type |-> "reentrancy",           severity |-> "HIGH",   confidence |-> 70],
  [type |-> "overflow",             severity |-> "MEDIUM", confidence |-> 70],
  [type |-> "flashloan",            severity |-> "HIGH",   confidence |-> 80],
  [type |-> "oracle",               severity |-> "MEDIUM", confidence |-> 75],
  [type |-> "access_control",       severity |-> "HIGH",   confidence |-> 75],
  [type |-> "privilege_escalation", severity |-> "MEDIUM", confidence |-> 70],
  [type |-> "gas_optimization",     severity |-> "LOW",    confidence |-> 80],
  [type |-> "gas_optimization",     severity |-> "LOW",    confidence |-> 60],
  [type |-> "external_call",        severity |-> "HIGH",   confidence |-> 85],
  [type |-> "fallback",             severity |-> "MEDIUM", confidence |-> 70],
  [type |-> "proxy",                severity |-> "HIGH",   confidence |-> 80],
  [type |-> "storage",              severity |-> "MEDIUM", confidence |-> 65],
  [type |-> "timestamp",            severity |-> "MEDIUM", confidence |-> 90],
  [type |-> "oracle_manipulation",  severity |-> "HIGH",   confidence |-> 75],
  [type |-> "front_running",        severity |-> "MEDIUM", confidence |-> 70],
  [type |-> "sandwich_attack",      severity |-> "MEDIUM", confidence |-> 65],
  [type |-> "unlimited_mint",       severity |-> "HIGH",   confidence |-> 85],
  [type |-> "unlimited_approval",   severity |-> "MEDIUM", confidence |-> 80],
  [type |-> "dependency",           severity |-> "MEDIUM", confidence |-> 70],
  [type |-> "version",              severity |-> "MEDIUM", confidence |-> 90],
  [type |-> "delegatecall",         severity |-> "HIGH",   confidence |-> 95],
  [type |-> "tx_origin",            severity |-> "HIGH",   confidence |-> 95],
  [type |-> "selfdestruct",         severity |-> "HIGH",   confidence |-> 95] >>

\* The source lines the model draws file contents from.
LinePlain == "uint256 total;"
LineCall == "msg.sender.call(data);"
LineLoop == "for (i = 0; i < a.length; i++) {"

\* pattern.test(line): the set of checks whose regular expression matches the
\* line.  LineCall matches /\.call\(/ (1) and /\.call\(|\.delegatecall\(/ (9);
\* LineLoop matches /(\+\+|--|\+=|-=)/ (2), /for\s*\(/ (7) and /\.length/ (8);
\* LinePlain matches none.
PatternTest(line) ==
  CASE line = LineCall -> {1, 9}
    [] line = LineLoop -> {2, 7, 8}
    [] OTHER -> {}

\* The finding findVulnerabilities pushes for check c at line i of file f.
FindingAt(files, c, f, i) ==
  [id |-> <<Checks[c].type, files[f].path, i>>,
   type |-> Checks[c].type,
   severity |-> Checks[c].severity,
   confidence |-> Checks[c].confidence,
   location |-> [file |-> files[f].path, line |-> i]]

\* lines.forEach of one file: the lines the pattern of check c matches, in
\* order, each giving a finding.
FileFindings(files, c, f) ==
  The({ Array([n \in 1..Len(hits) |-> FindingAt(files, c, f, hits[n])]) :
        hits \in { SelectSeq([i \in 1..Len(files[f].content) |-> i],
                             LAMBDA i : c \in PatternTest(files[f].content[i])) } })

\* findVulnerabilities for check c: files in order, lines in order.
findVulnerabilities(files, c) ==
  Flatten([f \in 1..Len(files) |-> FileFindings(files, c, f)])

\* The findings of all checks, concatenated in the order of the checks.
performGeneralHeuristicAnalysis(files) ==
  Flatten([c \in 1..Len(Checks) |-> findVulnerabilities(files, c)])

----------------------------------------------------------------------------
(* core/vote-engine.ts *)

getVotes(pv, findingId) == IF findingId \in DOMAIN pv THEN pv[findingId] ELSE <<>>

\* Mutant: the vote is always appended.
submitVote_append(pv, vote) ==
  [f \in DOMAIN pv \cup {vote.findingId} |->
     IF f = vote.findingId THEN Append(getVotes(pv, vote.findingId), vote) ELSE pv[f]]

\* submitVote, lines 17-35: replace the vote of the same agent, else append.
submitVote(pv, vote) ==
  LET votes == getVotes(pv, vote.findingId)
      same == {i \in 1..Len(votes) : votes[i].agentId = vote.agentId}
      existingVoteIndex == CHOOSE i \in same : \A j \in same : i <= j
      updated == IF same # {} THEN [votes EXCEPT ![existingVoteIndex] = vote]
                 ELSE Append(votes, vote)
  IN [f \in DOMAIN pv \cup {vote.findingId} |->
        IF f = vote.findingId THEN updated ELSE pv[f]]

\* Mutant: the votes of the finding are kept.
clearVotes_keep(pv, findingId) == pv

clearVotes(pv, findingId) == [f \in DOMAIN pv \ {findingId} |-> pv[f]]

\* The vote engine configuration built by SecurityScanningService.initialize
\* for the agents the runtime knows then.
ThresholdNum == 3
ThresholdDen == 5
TimeoutMinutes == 5
\* config.agentWeights is optional: it is undefined, or a table of weights.
NoWeights == [defined |-> FALSE, weight |-> <<>>]
Weights(table) == [defined |-> TRUE, weight |-> table]

ServiceConfig(agents) ==
  [consensusThreshold |-> <<ThresholdNum, ThresholdDen>>,
   minimumVotes |-> IF Len(agents) \div 2 # 0 THEN Len(agents) \div 2 ELSE 1,
   timeoutMinutes |-> TimeoutMinutes,
   weightingEnabled |-> FALSE,
   agentWeights |-> NoWeights]

\* config.agentWeights![vote.agentId] || 1.0: a weight that is absent or 0
\* counts as 1.  The configuration holds a weight as the fraction its
\* decimal literal denotes.
WeightOf(cfg, agentId) ==
  IF agentId \in DOMAIN cfg.agentWeights.weight /\ cfg.agentWeights.weight[agentId][1] # 0
  THEN DFromRat(cfg.agentWeights.weight[agentId]) ELSE DFromInt(1)

\* The votes as calculateConsensus reads them: each confidence is a double.
AsNumbers(votes) ==
  Array([i \in 1..Len(votes) |-> [votes[i] EXCEPT !.confidence = DFromInt(@)]])

\* applyWeights
applyWeights(cfg, votes) ==
  IF ~cfg.agentWeights.defined THEN AsNumbers(votes)
  ELSE Array([i \in 1..Len(votes) |->
         [votes[i] EXCEPT !.confidence = DMul(DFromInt(@), WeightOf(cfg, votes[i].agentId))]])

\* matchingVotes.reduce((sum, vote) => sum + vote.confidence, 0), over the
\* first n votes.
RECURSIVE SumVoteConfidence(_, _)
SumVoteConfidence(votes, n) ==
  IF n = 0 THEN DZero
  ELSE The({ DAdd(sum, votes[n].confidence) : sum \in { SumVoteConfidence(votes, n - 1) } })

\* calculateConfidenceScore
calculateConfidenceScore(votes, decision) ==
  The({ IF Len(votes) = 0 \/ Len(matchingVotes) = 0 THEN 0
        ELSE The({ The({ MathRound(DMul(avgConfidence, consensusStrengthOfVotes)) :
                         consensusStrengthOfVotes \in
                           { DDivInt(DFromInt(Len(matchingVotes)), Len(votes)) } }) :
                   avgConfidence \in
                     { DDivInt(SumVoteConfidence(matchingVotes, Len(matchingVotes)),
                               Len(matchingVotes)) } }) :
        matchingVotes \in { SelectSeq(votes, LAMBDA v : v.vote = decision) } })

\* The tally of weightedVotes.reduce: the number of votes per decision that
\* occurs.
VoteBreakdown(votes) ==
  [d \in {votes[i].vote : i \in 1..Len(votes)} |->
     Len(SelectSeq(votes, LAMBDA v : v.vote = d))]

\* voteBreakdown.CONFIRMED || 0
CountOf(breakdown, decision) ==
  IF decision \in DOMAIN breakdown THEN breakdown[decision] ELSE 0

\* Mutant: the threshold must be exceeded.
MeetsThreshold_strict(count, total, threshold) ==
  ~DLeq(DDivInt(DFromInt(count), total), DFromRat(threshold))

\* count / total >= this.config.consensusThreshold
MeetsThreshold(count, total, threshold) ==
  DLeq(DFromRat(threshold), DDivInt(DFromInt(count), total))

\* calculateConsensus
calculateConsensus(cfg, votes) ==
  IF Len(votes) = 0
  THEN [consensusReached |-> FALSE, finalDecision |-> "UNCERTAIN",
        confidenceScore |-> 0, voteBreakdown |-> <<>>]
  ELSE The({ The({ The({
         [consensusReached |-> finalDecision # "UNCERTAIN",
          finalDecision |-> finalDecision,
          confidenceScore |-> calculateConfidenceScore(weightedVotes, finalDecision),
          voteBreakdown |-> voteBreakdown] :
         finalDecision \in {
           IF MeetsThreshold(CountOf(voteBreakdown, "CONFIRMED"), Len(weightedVotes),
                             cfg.consensusThreshold) THEN "CONFIRMED"
           ELSE IF MeetsThreshold(CountOf(voteBreakdown, "REJECTED"), Len(weightedVotes),
                                  cfg.consensusThreshold) THEN "REJECTED"
           ELSE "UNCERTAIN" } }) :
         voteBreakdown \in { VoteBreakdown(weightedVotes) } }) :
         weightedVotes \in { IF cfg.weightingEnabled THEN applyWeights(cfg, votes)
                             ELSE AsNumbers(votes) } })

\* Mutant: with fewer than minimumVotes votes no consensus is reported.
getFinalResult_gated(cfg, pv, findingId) ==
  The({ [consensusReached |-> consensus.consensusReached,
         finalDecision |-> consensus.finalDecision,
         confidenceScore |-> consensus.confidenceScore,
         voteBreakdown |-> consensus.voteBreakdown,
         totalVotes |-> Len(getVotes(pv, findingId))] :
        consensus \in { IF Len(getVotes(pv, findingId)) < cfg.minimumVotes
                        THEN calculateConsensus(cfg, <<>>)
                        ELSE calculateConsensus(cfg, getVotes(pv, findingId)) } })

\* getFinalResult
getFinalResult(cfg, pv, findingId) ==
  The({ [consensusReached |-> consensus.consensusReached,
         finalDecision |-> consensus.finalDecision,
         confidenceScore |-> consensus.confidenceScore,
         voteBreakdown |-> consensus.voteBreakdown,
         totalVotes |-> Len(getVotes(pv, findingId))] :
        consensus \in { calculateConsensus(cfg, getVotes(pv, findingId)) } })

\* checkConsensus, as the value it returns: with fewer than minimumVotes
\* votes the consensus is not calculated.
checkConsensus(cfg, pv, findingId) ==
  The({ IF Len(votes) < cfg.minimumVotes THEN FALSE
        ELSE calculateConsensus(cfg, votes).consensusReached :
        votes \in { getVotes(pv, findingId) } })

\* The timers of the engine are the pair t of the Map voteTimeouts
\* (findingId -> handle) and the timers setTimeout has created, by handle:
\* each has the finding and the callback it was started with and is armed,
\* cleared or fired.

\* clearTimeout(handle) of the host: only an armed timer is affected.
CancelTimer(tm, h) ==
  [tm EXCEPT ![h].status = IF @ = "armed" THEN "cleared" ELSE @]

\* VoteEngine.clearTimeout
clearTimeout(t, findingId) ==
  IF findingId \in DOMAIN t.voteTimeouts
  THEN [voteTimeouts |-> [f \in DOMAIN t.voteTimeouts \ {findingId} |-> t.voteTimeouts[f]],
        timers |-> CancelTimer(t.timers, t.voteTimeouts[findingId])]
  ELSE t

\* The end of submitVote, line 37: this.checkConsensus(findingId), on the
\* votes pv already updated.
CheckAfterSubmit(cfg, pv, t, findingId) ==
  IF checkConsensus(cfg, pv, findingId) THEN clearTimeout(t, findingId) ELSE t

\* startVoteTimeout
startVoteTimeout(t, findingId, callback) ==
  LET cleared == IF findingId \in DOMAIN t.voteTimeouts
                 THEN CancelTimer(t.timers, t.voteTimeouts[findingId])
                 ELSE t.timers
      timeout == Len(cleared) + 1
  IN [voteTimeouts |-> [f \in DOMAIN t.voteTimeouts \cup {findingId} |->
                          IF f = findingId THEN timeout ELSE t.voteTimeouts[f]],
      timers |-> Append(cleared, [findingId |-> findingId, callback |-> callback,
                                  status |-> "armed"])]

\* What the callback given to startVoteTimeout does when it is called with
\* findingId: nothing to the engine, or start a new timeout for the finding.
RunCallback(t, callback, findingId) ==
  IF callback = "rearm" THEN startVoteTimeout(t, findingId, "noop") ELSE t

\* The function given to setTimeout, lines 171-175, run for the timer h:
\* the callback, then this.voteTimeouts.delete(findingId).
TimeoutElapsed(t, h) ==
  LET findingId == t.timers[h].findingId
      called == RunCallback([t EXCEPT !.timers[h].status = "fired"],
                            t.timers[h].callback, findingId)
  IN [called EXCEPT !.voteTimeouts = [f \in DOMAIN @ \ {findingId} |-> @[f]]]

\* The second line of clearVotes, for the findings 1..n of a scan.
RECURSIVE clearAllTimeouts(_, _, _)
clearAllTimeouts(t, findings, n) ==
  IF n = 0 THEN t
  ELSE The({ clearTimeout(cleared, findings[n].id) :
             cleared \in { clearAllTimeouts(t, findings, n - 1) } })

\* scan.findings.forEach((f) => this.voteEngine.clearVotes(f.id)), for the
\* first n findings.
RECURSIVE clearAllVotes(_, _, _)
clearAllVotes(pv, findings, n) ==
  IF n = 0 THEN pv
  ELSE The({ clearVotes(cleared, findings[n].id) :
             cleared \in { clearAllVotes(pv, findings, n - 1) } })

----------------------------------------------------------------------------
(* core/security-scanning-service.ts : pure parts *)

\* The ScanResult created by startScan.
NewScanResult(scanId, request) ==
  [scanId |-> scanId,
   contractAddress |-> request.contractAddress,
   githubRepo |-> request.githubRepo,
   githubPath |-> request.githubPath,
   chain |-> request.chain,
   status |-> "PENDING",
   progress |-> Num(0),
   findings |-> <<>>,
   agentVotes |-> <<>>,
   finalConfidenceScore |-> Num(0),
   totalVotes |-> 0,
   consensusReached |-> FALSE,
   completedAt |-> None]

\* The synchronous head of executeScan, up to its first await.
BeginExecute(scan) ==
  [scan EXCEPT !.status = "SCANNING", !.progress = Num(ProgressInitializing)]

\* Mutants of the catch block: it only logs; it leaves the progress as it is.
FailScan_logOnly(scan) == scan
FailScan_keepProgress(scan) == [scan EXCEPT !.status = "FAILED"]

\* The catch block of executeScan.
FailScan(scan) ==
  [scan EXCEPT !.status = "FAILED", !.progress = Num(ProgressEnd)]

\* fetchContractFiles: which source the request selects.  A JavaScript
\* value is truthy here when it is neither undefined nor the empty string.
Truthy(v) == v # None /\ v # ""
FetchSource(request) ==
  IF Truthy(request.githubRepo) THEN "github"
  ELSE IF Truthy(request.contractAddress) /\ Truthy(request.chain) THEN "chain"
  ELSE "none"

\* agent.name?.includes(name) for one of the three target names.
TargetAgentNames ==
  {"Static Code Agent", "Access Control Agent", "Dangerous Functions Agent"}
NameIncludesTarget(name) ==
  name \in TargetAgentNames \cup {"Static Code Agent (backup)", "Dangerous Functions Agent v2"}

SelectAgents(allAgents) == SelectSeq(allAgents, LAMBDA a : NameIncludesTarget(a.name))

AgentIdOf(agent) == IF Truthy(agent.id) THEN agent.id ELSE "agent-unidentified"

\* Mutant: a single batch holds every agent.
BatchOf_all(b, n) == IF b = 1 THEN 1..n ELSE {}

\* The indices (into agents) of batch b: agents.slice(i, i + CONCURRENCY_LIMIT).
BatchOf(b, n) ==
  {i \in 1..n : (b - 1) * CONCURRENCY_LIMIT < i /\ i <= b * CONCURRENCY_LIMIT}

\* What the upstream repository holds: the .sol files performGitHubFetch
\* returns, each content given as its lines (content.split('\n')); a
\* repository path that holds no .sol file makes it return the empty list.
RepoFileSets ==
  { << [path |-> "A.sol", content |-> <<LinePlain, LineCall, LineLoop>>] >>,
    << >> }

\* The findings of the analysis of each of these file lists, computed once.
AnalysisOfRepoFiles ==
  [files \in RepoFileSets |-> performGeneralHeuristicAnalysis(files)]

\* triggerAgentAnalysis: the scan id is prepended to each finding id; a throw
\* of the analysis is caught and gives no findings.
triggerAgentAnalysis(scanId, files, throws) ==
  IF throws THEN <<>>
  ELSE The({ Array([i \in 1..Len(fs) |-> [fs[i] EXCEPT !.id = <<scanId>> \o fs[i].id]]) :
             fs \in { IF files \in RepoFileSets THEN AnalysisOfRepoFiles[files]
                      ELSE performGeneralHeuristicAnalysis(files) } })

\* Mutant: the share of completed agents scaled to 100, and no cap.
BatchProgress_uncapped(completedAgents, total) ==
  Rat(ProgressSetup * total + completedAgents * ProgressEnd, total)

\* Math.min(35 + (completedAgents / agents.length) * 50, 85)
BatchProgress(completedAgents, total) ==
  RatMin(Rat(ProgressSetup * total + completedAgents * ProgressAnalysisSpan, total),
         Num(ProgressAnalysed))

\* Mutant: only the results that carry findings are kept.
BatchResults_nonEmpty(out, b) ==
  SelectSeq([k \in 1..Cardinality(DOMAIN out) |-> out[(b - 1) * CONCURRENCY_LIMIT + k]],
            LAMBDA r : r.findings # <<>>)

\* Mutant: the results of a batch in the reverse order.
BatchResults_reversed(out, b) ==
  [k \in 1..Cardinality(DOMAIN out) |->
     out[(b - 1) * CONCURRENCY_LIMIT + Cardinality(DOMAIN out) + 1 - k]]

\* batchResults of Promise.all: one result per agent of the batch, in order.
BatchResults(out, b) ==
  [k \in 1..Cardinality(DOMAIN out) |-> out[(b - 1) * CONCURRENCY_LIMIT + k]]

\* Mutant: the loop ends after the first batch.
MoreBatches_never(completedAgents, total) == FALSE

\* The pause is taken, and the loop goes on, while agents are left.
MoreBatches(completedAgents, total) == completedAgents < total

----------------------------------------------------------------------------
(* performAgentVoting *)

GroupKey(finding) == <<finding.type, finding.severity>>

\* The keys of the Map findingGroups, in insertion order: a key is inserted
\* by the first finding that has it.
KeysInOrder(findings) ==
  The({ Array([n \in 1..Len(first) |-> GroupKey(findings[first[n]])]) :
        first \in { SelectSeq([i \in 1..Len(findings) |-> i], LAMBDA i :
                      \A j \in 1..i - 1 : GroupKey(findings[j]) # GroupKey(findings[i])) } })

GroupMembers(findings, key) == SelectSeq(findings, LAMBDA f : GroupKey(f) = key)

\* Mutant: Math.floor in place of Math.ceil.
requiredVotes_floor(totalAgents) == (3 * totalAgents) \div 5

\* Math.ceil(totalAgents * 0.6)
requiredVotes(totalAgents) == Ceil(3 * totalAgents, 5)

\* findings.reduce((best, current) => current.confidence > best.confidence ?
\* current : best): the first finding of the highest confidence.
bestFinding(findings) ==
  findings[CHOOSE i \in 1..Len(findings) :
             /\ \A j \in 1..Len(findings) : findings[j].confidence <= findings[i].confidence
             /\ \A j \in 1..i - 1 : findings[j].confidence < findings[i].confidence]

\* Math.min(votePercentage / consensusThreshold, 1.0), for totalAgents > 0
consensusStrength(voteCount, totalAgents) ==
  RatMin(Rat(5 * voteCount, 3 * totalAgents), Num(1))

finalConfidence(best, voteCount, totalAgents) ==
  The({ Round(best.confidence * s[1], s[2]) :
        s \in { consensusStrength(voteCount, totalAgents) } })

\* The loop over findingGroups: the groups that reach requiredVotes, in
\* order, each as its best finding with the final confidence and a new id.
ConfirmGroups(keys, findings, totalAgents, scanId) ==
  The({ Array([n \in 1..Len(reached) |->
          The({ The({ [best EXCEPT
                         !.confidence = finalConfidence(best, Len(group), totalAgents),
                         !.id = <<scanId, "confirmed", n - 1>>] :
                      best \in { bestFinding(group) } }) :
                group \in { GroupMembers(findings, reached[n]) } })]) :
        reached \in { SelectSeq(keys, LAMBDA key :
                        Len(GroupMembers(findings, key)) >= requiredVotes(totalAgents)) } })

TypeIncludesGas(type) == type = "gas_optimization"

categoryOrder(finding) ==
  CASE finding.severity = "CRITICAL" -> 0
    [] finding.severity = "HIGH" -> 1
    [] finding.severity = "MEDIUM" -> 2
    [] finding.severity = "LOW" -> IF TypeIncludesGas(finding.type) THEN 4 ELSE 3
    [] finding.severity = "INFO" -> 5
    [] OTHER -> 6

\* Mutant: equal categories are ordered by ascending confidence.
SortCompare_ascending(a, b) ==
  IF categoryOrder(a) # categoryOrder(b) THEN categoryOrder(a) - categoryOrder(b)
  ELSE a.confidence - b.confidence

SortCompare(a, b) ==
  IF categoryOrder(a) # categoryOrder(b) THEN categoryOrder(a) - categoryOrder(b)
  ELSE b.confidence - a.confidence

\* confirmedFindings.sort(SortCompare): Array.prototype.sort is stable, so
\* a finding comes after those that compare lower and after the earlier
\* ones that compare equal.
SortFindings(findings) ==
  LET before(i) == {j \in 1..Len(findings) :
                      \/ SortCompare(findings[j], findings[i]) < 0
                      \/ SortCompare(findings[j], findings[i]) = 0 /\ j < i}
  IN Array([n \in 1..Len(findings) |->
        findings[CHOOSE i \in 1..Len(findings) : Cardinality(before(i)) = n - 1]])

RECURSIVE SumConfidence(_, _)
SumConfidence(findings, n) ==
  IF n = 0 THEN 0 ELSE findings[n].confidence + SumConfidence(findings, n - 1)

performAgentVoting(analysisResults, scanId) ==
  The({ The({ [confirmedFindings |-> SortFindings(confirmed),
               averageConfidence |->
                 IF Len(confirmed) > 0
                 THEN The({ Rat(sum, Len(confirmed) * 100) :
                            sum \in { SumConfidence(confirmed, Len(confirmed)) } })
                 ELSE Num(0),
               totalVotes |-> Len(all)] :
              confirmed \in { ConfirmGroups(keys, all, Len(analysisResults), scanId) :
                              keys \in { KeysInOrder(all) } } }) :
        all \in { Flatten([i \in 1..Len(analysisResults) |-> analysisResults[i].findings]) } })

\* Mutant: the status is set before an await, the other fields after it.
CompleteResult_statusFirst(scan, finalResults) == [scan EXCEPT !.status = "COMPLETED"]

\* Lines 228-237 of executeScan: the result of the voting is recorded.
CompleteResult(scan, finalResults) ==
  [scan EXCEPT !.findings = finalResults.confirmedFindings,
               !.finalConfidenceScore = finalResults.averageConfidence,
               !.totalVotes = finalResults.totalVotes,
               !.status = "COMPLETED",
               !.progress = Num(ProgressEnd),
               !.completedAt = "set",
               !.consensusReached = Len(finalResults.confirmedFindings) > 0]

----------------------------------------------------------------------------
(* Inputs *)

ScanIds == 1..MaxScans

ReqGithub ==
  [type |-> "GITHUB", githubRepo |-> "owner/repo", githubPath |-> None,
   contractAddress |-> None, chain |-> None, accessToken |-> None]
ReqEmpty ==
  [type |-> "GITHUB", githubRepo |-> None, githubPath |-> None,
   contractAddress |-> None, chain |-> None, accessToken |-> None]
\* The requests submitted: a repository scan, and a request that names no
\* source.  On-chain requests, whose fetch is a placeholder that returns one
\* fixed comment file, are not submitted.
Requests == {ReqGithub, ReqEmpty}

\* The agents the runtime may know, in registration order.
AgentCatalog == <<
  [id |-> "agent-1", name |-> "Static Code Agent"],
  [id |-> "agent-2", name |-> "Access Control Agent"],
  [id |-> "agent-3", name |-> "Dangerous Functions Agent"],
  [id |-> None,      name |-> "Static Code Agent (backup)"],
  [id |-> "agent-5", name |-> "Tokenomics Agent"],
  [id |-> "agent-6", name |-> "Dangerous Functions Agent v2"] >>

\* The votes submitted through submitAgentVote: the vote of one agent on the
\* first confirmed finding of the first scan, which may be submitted again.
VotedScans == {1}
ScanVotes ==
  { [agentId |-> "agent-1", findingId |-> <<scanId, "confirmed", 0>>,
     vote |-> "CONFIRMED", confidence |-> 80] : scanId \in ScanIds }
VoteInputs(scanId) == { vote \in ScanVotes : vote.findingId[1] = scanId }

\* The vote lists calculateConsensus is applied to: every list of at most
\* MaxVoteList of these votes that holds one vote per agent at most, as the
\* lists of pendingVotes do.
VoteAlphabet ==
  { [agentId |-> "agent-1", findingId |-> "f1", vote |-> "CONFIRMED", confidence |-> 51],
    [agentId |-> "agent-2", findingId |-> "f1", vote |-> "CONFIRMED", confidence |-> 59],
    [agentId |-> "agent-3", findingId |-> "f1", vote |-> "CONFIRMED", confidence |-> 53],
    [agentId |-> "agent-4", findingId |-> "f1", vote |-> "REJECTED", confidence |-> 70],
    [agentId |-> "agent-5", findingId |-> "f1", vote |-> "REJECTED", confidence |-> 90],
    [agentId |-> "agent-6", findingId |-> "f1", vote |-> "UNCERTAIN", confidence |-> 40] }

VoteLists ==
  UNION { { votes \in [1..n -> VoteAlphabet] :
            \A i, j \in 1..n : i # j => votes[i].agentId # votes[j].agentId } :
          n \in 0..MaxVoteList }

\* The configurations of the vote engine: the one the service builds, one
\* with a threshold of a half, one with weighting enabled and no weights,
\* and one with the weights 0.7, 0.2 and 0 (agent-3 has none).
HalfConfig ==
  [ServiceConfig(<<>>) EXCEPT !.consensusThreshold = <<1, 2>>]
UnweightedConfig ==
  [ServiceConfig(<<>>) EXCEPT !.weightingEnabled = TRUE]
WeightedConfig ==
  [ServiceConfig(<<>>) EXCEPT
     !.weightingEnabled = TRUE,
     !.agentWeights = Weights([a \in {"agent-1", "agent-2", "agent-4"} |->
                                 CASE a = "agent-1" -> <<7, 10>>
                                   [] a = "agent-2" -> <<1, 5>>
                                   [] a = "agent-4" -> <<0, 1>>])]
VoteConfigs == <<ServiceConfig(<<>>), HalfConfig, UnweightedConfig, WeightedConfig>>

\* The analyzer results the voting step is applied to: every list of at most
\* MaxResults results, each the findings of an analysis of one file, or
\* none.
ResultAlphabet ==
  { [agentId |-> "agent-1", findings |-> <<>>] } \cup
  { [agentId |-> "agent-1",
     findings |-> triggerAgentAnalysis(1, << [path |-> "A.sol", content |-> c] >>, FALSE)] :
    c \in { <<LineCall>>, <<LineLoop>>, <<LineCall, LineLoop>> } }

ResultLists == UNION { [1..n -> ResultAlphabet] : n \in 0..MaxResults }

\* The calls made on a vote engine used on its own: the votes of two agents
\* on the finding f1 and a vote on the finding f2, timeouts for f1 whose
\* callback does nothing or starts the next timeout of the finding.
EngineFindings == {"f1", "f2"}
EngineVotes ==
  { [agentId |-> a, findingId |-> "f1", vote |-> d, confidence |-> 80] :
    a \in {"agent-1", "agent-2"}, d \in {"CONFIRMED", "REJECTED"} } \cup
  { [agentId |-> "agent-1", findingId |-> "f2", vote |-> "CONFIRMED", confidence |-> 80] }
TimerFindings == {"f1"}
Callbacks == {"noop", "rearm"}
\* The configuration of the engine the operations are applied to: the one
\* initialize builds for four agents, with minimumVotes 2.
EngineConfigs == << ServiceConfig(SubSeq(AgentCatalog, 1, 4)) >>

----------------------------------------------------------------------------
(* State machine *)

Terminal(status) == status \in {"COMPLETED", "FAILED"}

Created == DOMAIN activeScans

\* Mutant: a Map whose set writes the value to every key.
Put_everyKey(m, k, v) == [x \in DOMAIN m \cup {k} |-> v]

\* Replace or add the entry of key k in the map m.
Put(m, k, v) == [x \in DOMAIN m \cup {k} |-> IF x = k THEN v ELSE m[x]]

\* History: every value assigned to scan.status and to scan.progress, in order.
Assigned(h, statuses, progresses) ==
  [h EXCEPT !.statuses = h.statuses \o statuses, !.progress = h.progress \o progresses]

\* The cache of fetchFromGitHub: the key of a repository and path, the test
\* of an entry, and the entry stored.  Strings that are formatted are
\* sequences of characters.
KeyPrefix == <<"g", "i", "t", "h", "u", "b", "-", "r", "e", "p", "o", ":">>
Colon == <<":">>
RootName == <<"r", "o", "o", "t">>

\* `github-repo:${repo}:${path || 'root'}`
cacheKey(repo, path) ==
  KeyPrefix \o repo \o Colon \o (IF path # <<>> THEN path ELSE RootName)

\* A cache none of whose entries is ever fresh.
IsFresh_never(item, t) == FALSE

\* Date.now() - cachedItem.timestamp < this.GITHUB_CACHE_TTL
IsFresh(item, t) == t - item.timestamp < GITHUB_CACHE_TTL

\* The tail of fetchFromGitHub, lines 286-290, when performGitHubFetch has
\* resolved with files at the time t.
StoreFetched(gc, c, files, t) ==
  Put(gc, cacheKey(c.repo, c.path), [data |-> files, timestamp |-> t])

\* The characters of the strings the requests of a scan carry; a path that
\* is undefined takes the default '' of the parameter.
RepoChars == <<"o", "w", "n", "e", "r", "/", "r", "e", "p", "o">>
Chars(v) == IF v = "owner/repo" THEN RepoChars ELSE <<>>

\* fetchContractFiles: the arguments it gives to fetchFromGitHub.
FetchTarget(request) ==
  [repo |-> Chars(request.githubRepo), path |-> Chars(request.githubPath)]

\* fetchFromGitHub up to its first await: the data of a fresh entry of the
\* key, with which the call resolves without an upstream request, or none.
\* The value a call of fetchFromGitHub has resolved with is <<files>>, and
\* <<>> while it has none.
CachedFiles(gc, request, t) ==
  The({ IF FetchSource(request) = "github" /\ key \in DOMAIN gc /\ IsFresh(gc[key], t)
        THEN <<gc[key].data>> ELSE <<>> :
        key \in { cacheKey(FetchTarget(request).repo, FetchTarget(request).path) } })

Init ==
  /\ runtimeAgents \in {SubSeq(AgentCatalog, 1, k) : k \in 0..Min(MaxAgents, Len(AgentCatalog))}
  /\ activeScans = <<>>
  /\ exec = <<>>
  /\ pendingVotes = <<>>
  /\ votesSubmitted = 0
  /\ hist = <<>>
  /\ config = ServiceConfig(runtimeAgents)
  /\ voteTimeouts = <<>>
  /\ timers = <<>>
  /\ input = None
  /\ output = <<>>
  /\ githubCache = <<>> /\ calls = <<>> /\ cache = <<>> /\ now = 0

\* startScan(request), with the part of executeScan that runs before its
\* first await (the call this.executeScan(...) runs synchronously up to there,
\* through the cache lookup of fetchFromGitHub), while fewer than limit scans
\* have been started.
StartScanWithin(request, limit) ==
  /\ Cardinality(Created) < limit
  /\ LET scanId == Cardinality(Created) + 1
         created == NewScanResult(scanId, request)
         begun == BeginExecute(created)
     IN
       /\ activeScans' = Put(activeScans, scanId, begun)
       /\ exec' = Put(exec, scanId,
            [pc |-> "fetch", request |-> request, files |-> <<>>, agents |-> <<>>,
             batch |-> 0, running |-> {}, out |-> <<>>, analysisResults |-> <<>>,
             completedAgents |-> 0, resolved |-> CachedFiles(githubCache, request, now)])
       /\ hist' = Put(hist, scanId,
            [statuses |-> <<created.status, begun.status>>,
             progress |-> <<created.progress, begun.progress>>,
             fetch |-> "pending", invoked |-> <<>>, threw |-> {}])
  /\ UNCHANGED <<runtimeAgents, pendingVotes, votesSubmitted>>
  /\ UNCHANGED <<config, voteTimeouts, timers, input, output>>
  /\ UNCHANGED cacheVars

StartScan(request) == StartScanWithin(request, MaxScans)

\* await this.performGitHubFetch(...) resolves with files in fetchFromGitHub,
\* lines 286-290: the files are stored in the cache and the call resolves
\* with them.  executeScan is still suspended at its await.
FetchStores(s, files) ==
  /\ s \in Created /\ exec[s].pc = "fetch" /\ exec[s].resolved = <<>>
  /\ FetchSource(exec[s].request) = "github" /\ files \in RepoFileSets
  /\ githubCache' = StoreFetched(githubCache, FetchTarget(exec[s].request), files, now)
  /\ exec' = [exec EXCEPT ![s].resolved = <<files>>]
  /\ UNCHANGED <<runtimeAgents, activeScans, pendingVotes, votesSubmitted, hist>>
  /\ UNCHANGED <<config, voteTimeouts, timers, input, output>>
  /\ UNCHANGED <<calls, cache, now>>

\* executeScan resumes from await this.fetchContractFiles(request), lines
\* 130-137, with the files the call has resolved with: those of the cache
\* entry it found, or those it stored.
FetchReturn(s, files) ==
  /\ s \in Created /\ exec[s].pc = "fetch" /\ exec[s].resolved = <<files>>
  /\ activeScans' = [activeScans EXCEPT ![s].progress = Num(ProgressVerified)]
  /\ exec' = [exec EXCEPT ![s].pc = "getAgents", ![s].files = files, ![s].resolved = <<>>]
  /\ hist' = [hist EXCEPT ![s] =
       Assigned([@ EXCEPT !.fetch = "ok"], <<>>,
                <<Num(ProgressFetched), Num(ProgressVerified)>>)]
  /\ UNCHANGED <<runtimeAgents, pendingVotes, votesSubmitted>>
  /\ UNCHANGED <<config, voteTimeouts, timers, input, output>>
  /\ UNCHANGED cacheVars

\* await this.fetchContractFiles(request) rejects: an upstream error of a
\* call that found no fresh entry and has not resolved, or neither source is
\* given.  Nothing is stored in the cache.
FetchThrow(s) ==
  /\ s \in Created /\ exec[s].pc = "fetch"
  /\ \/ FetchSource(exec[s].request) = "none"
     \/ FetchSource(exec[s].request) = "github" /\ exec[s].resolved = <<>>
  /\ activeScans' = [activeScans EXCEPT ![s] = FailScan(@)]
  /\ exec' = [exec EXCEPT ![s].pc = "done"]
  /\ hist' = [hist EXCEPT ![s] =
       Assigned([@ EXCEPT !.fetch = "failed"], <<FailScan(activeScans[s]).status>>,
                <<FailScan(activeScans[s]).progress>>)]
  /\ UNCHANGED <<runtimeAgents, pendingVotes, votesSubmitted>>
  /\ UNCHANGED <<config, voteTimeouts, timers, input, output>>
  /\ UNCHANGED cacheVars

\* The analyzers of batch b are all started by batch.map before the await.
StartBatch(e, b) ==
  [e EXCEPT !.pc = "batch", !.batch = b, !.running = BatchOf(b, Len(e.agents)),
            !.out = <<>>]
Invoked(h, e, b) ==
  [h EXCEPT !.invoked = h.invoked \o
     [k \in 1..Cardinality(BatchOf(b, Len(e.agents))) |-> (b - 1) * CONCURRENCY_LIMIT + k]]

\* await this.runtime.getAgents() resolves: the agents are selected and the
\* first batch is started, or with no agent the voting is entered at once.
GetAgentsReturn(s) ==
  /\ s \in Created /\ exec[s].pc = "getAgents"
  /\ LET agents == SelectAgents(runtimeAgents)
         e == [exec[s] EXCEPT !.agents = agents]
     IN IF Len(agents) > 0
        THEN /\ activeScans' = [activeScans EXCEPT ![s].progress = Num(ProgressSetup)]
             /\ exec' = [exec EXCEPT ![s] = StartBatch(e, 1)]
             /\ hist' = [hist EXCEPT ![s] =
                  Assigned(Invoked(@, e, 1), <<>>, <<Num(ProgressSetup)>>)]
        ELSE /\ activeScans' = [activeScans EXCEPT ![s].progress = Num(ProgressAnalysed)]
             /\ exec' = [exec EXCEPT ![s] = [e EXCEPT !.pc = "voting"]]
             /\ hist' = [hist EXCEPT ![s] =
                  Assigned(@, <<>>, <<Num(ProgressSetup), Num(ProgressAnalysed)>>)]
  /\ UNCHANGED <<runtimeAgents, pendingVotes, votesSubmitted>>
  /\ UNCHANGED <<config, voteTimeouts, timers, input, output>>
  /\ UNCHANGED cacheVars

\* await this.runtime.getAgents() rejects.
GetAgentsThrow(s) ==
  /\ s \in Created /\ exec[s].pc = "getAgents"
  /\ activeScans' = [activeScans EXCEPT ![s] = FailScan(@)]
  /\ exec' = [exec EXCEPT ![s].pc = "done"]
  /\ hist' = [hist EXCEPT ![s] =
       Assigned(@, <<FailScan(activeScans[s]).status>>, <<FailScan(activeScans[s]).progress>>)]
  /\ UNCHANGED <<runtimeAgents, pendingVotes, votesSubmitted>>
  /\ UNCHANGED <<config, voteTimeouts, timers, input, output>>
  /\ UNCHANGED cacheVars

\* The analysis of agent i returns its findings.
AnalyzerReturn(s, i) ==
  /\ s \in Created /\ exec[s].pc = "batch" /\ i \in exec[s].running
  /\ exec' = [exec EXCEPT
       ![s].running = @ \ {i},
       ![s].out = Put(@, i, [agentId |-> AgentIdOf(exec[s].agents[i]),
                             findings |-> triggerAgentAnalysis(s, exec[s].files, FALSE)])]
  /\ UNCHANGED <<runtimeAgents, activeScans, pendingVotes, votesSubmitted, hist>>
  /\ UNCHANGED <<config, voteTimeouts, timers, input, output>>
  /\ UNCHANGED cacheVars

\* The analysis of agent i throws: the catch of triggerAgentAnalysis returns
\* no findings.
AnalyzerThrow(s, i) ==
  /\ s \in Created /\ exec[s].pc = "batch" /\ i \in exec[s].running
  /\ exec' = [exec EXCEPT
       ![s].running = @ \ {i},
       ![s].out = Put(@, i, [agentId |-> AgentIdOf(exec[s].agents[i]),
                             findings |-> triggerAgentAnalysis(s, exec[s].files, TRUE)])]
  /\ hist' = [hist EXCEPT ![s].threw = @ \cup {i}]
  /\ UNCHANGED <<runtimeAgents, activeScans, pendingVotes, votesSubmitted>>
  /\ UNCHANGED <<config, voteTimeouts, timers, input, output>>
  /\ UNCHANGED cacheVars

\* await Promise.all(batchPromises) resolves.
BatchDone(s) ==
  /\ s \in Created /\ exec[s].pc = "batch" /\ exec[s].running = {}
  /\ LET e == exec[s]
         total == Len(e.agents)
         completed == e.completedAgents + Cardinality(BatchOf(e.batch, total))
         results == e.analysisResults \o BatchResults(e.out, e.batch)
         after == [e EXCEPT !.out = <<>>, !.analysisResults = results,
                            !.completedAgents = completed]
     IN IF MoreBatches(completed, total)
        THEN /\ activeScans' = [activeScans EXCEPT ![s].progress = BatchProgress(completed, total)]
             /\ exec' = [exec EXCEPT ![s] = [after EXCEPT !.pc = "pause"]]
             /\ hist' = [hist EXCEPT ![s] =
                  Assigned(@, <<>>, <<BatchProgress(completed, total)>>)]
        ELSE /\ activeScans' = [activeScans EXCEPT ![s].progress = Num(ProgressAnalysed)]
             /\ exec' = [exec EXCEPT ![s] = [after EXCEPT !.pc = "voting"]]
             /\ hist' = [hist EXCEPT ![s] =
                  Assigned(@, <<>>, <<BatchProgress(completed, total), Num(ProgressAnalysed)>>)]
  /\ UNCHANGED <<runtimeAgents, pendingVotes, votesSubmitted>>
  /\ UNCHANGED <<config, voteTimeouts, timers, input, output>>
  /\ UNCHANGED cacheVars

\* The one second pause between batches ends: the loop goes on with the next
\* batch, or ends when there is none.
PauseElapsed(s) ==
  /\ s \in Created /\ exec[s].pc = "pause"
  /\ IF BatchOf(exec[s].batch + 1, Len(exec[s].agents)) # {}
     THEN /\ exec' = [exec EXCEPT ![s] = StartBatch(@, exec[s].batch + 1)]
          /\ hist' = [hist EXCEPT ![s] = Invoked(@, exec[s], exec[s].batch + 1)]
          /\ UNCHANGED activeScans
     ELSE /\ activeScans' = [activeScans EXCEPT ![s].progress = Num(ProgressAnalysed)]
          /\ exec' = [exec EXCEPT ![s].pc = "voting"]
          /\ hist' = [hist EXCEPT ![s] = Assigned(@, <<>>, <<Num(ProgressAnalysed)>>)]
  /\ UNCHANGED <<runtimeAgents, pendingVotes, votesSubmitted>>
  /\ UNCHANGED <<config, voteTimeouts, timers, input, output>>
  /\ UNCHANGED cacheVars

\* await this.performAgentVoting(...) resolves: the scan is completed and the
\* votes of its confirmed findings are cleared.
CompleteScan(s) ==
  /\ s \in Created /\ exec[s].pc = "voting"
  /\ \E completed \in { CompleteResult(activeScans[s], finalResults) :
                        finalResults \in { performAgentVoting(exec[s].analysisResults, s) } } :
       /\ activeScans' = [activeScans EXCEPT ![s] = completed]
       /\ pendingVotes' = clearAllVotes(pendingVotes, completed.findings, Len(completed.findings))
       /\ \E t \in { clearAllTimeouts([voteTimeouts |-> voteTimeouts, timers |-> timers],
                                      completed.findings, Len(completed.findings)) } :
            voteTimeouts' = t.voteTimeouts /\ timers' = t.timers
       /\ hist' = [hist EXCEPT ![s] =
            Assigned(@, <<completed.status>>, <<Num(ProgressVoted), completed.progress>>)]
  /\ exec' = [exec EXCEPT ![s].pc = "done"]
  /\ UNCHANGED <<runtimeAgents, votesSubmitted, config, input, output>>
  /\ UNCHANGED cacheVars

\* submitAgentVote(scanId, vote) for a known scan: the vote is pushed to the
\* scan's agentVotes and submitted to the vote engine.
SubmitAgentVote(s, vote) ==
  /\ s \in Created /\ votesSubmitted < MaxVotes
  /\ activeScans' = [activeScans EXCEPT ![s].agentVotes = Append(@, vote)]
  /\ \E pv \in { submitVote(pendingVotes, vote) } :
       /\ pendingVotes' = pv
       /\ \E t \in { CheckAfterSubmit(config, pv,
                         [voteTimeouts |-> voteTimeouts, timers |-> timers],
                         vote.findingId) } :
            voteTimeouts' = t.voteTimeouts /\ timers' = t.timers
  /\ votesSubmitted' = votesSubmitted + 1
  /\ UNCHANGED <<runtimeAgents, exec, hist, config, input, output>>
  /\ UNCHANGED cacheVars

\* The function initialize gives to setInterval, run every 30 seconds:
\* processTimeouts, whose body holds a comment only.
ProcessTimeouts == UNCHANGED vars

ScanStep(s) ==
  \/ \E files \in RepoFileSets : FetchStores(s, files)
  \/ \E files \in RepoFileSets : FetchReturn(s, files)
  \/ FetchThrow(s)
  \/ GetAgentsReturn(s)
  \/ GetAgentsThrow(s)
  \/ \E i \in 1..Len(AgentCatalog) : AnalyzerReturn(s, i)
  \/ \E i \in 1..Len(AgentCatalog) : AnalyzerThrow(s, i)
  \/ BatchDone(s)
  \/ PauseElapsed(s)
  \/ CompleteScan(s)

Next ==
  \/ \E request \in Requests : StartScan(request)
  \/ \E s \in ScanIds : ScanStep(s)
  \/ \E s \in VotedScans : \E vote \in VoteInputs(s) : SubmitAgentVote(s, vote)
  \/ ProcessTimeouts

Spec == Init /\ [][Next]_vars

\* Every call that is awaited settles, every timer fires, and a resumed
\* function runs: each scan keeps taking its steps.
LiveSpec == Spec /\ \A s \in ScanIds : WF_vars(ScanStep(s))

\* getScanResult(scanId): the record of the scan is read as it is, between
\* two steps of the scans; nothing is changed.
GetScanResult(s) ==
  /\ s \in Created
  /\ UNCHANGED vars

\* The service with a client that reads the record of the scan it votes on
\* while the scans run.
ObservedNext ==
  \/ \E request \in Requests : StartScan(request)
  \/ \E s \in ScanIds : ScanStep(s)
  \/ \E s \in VotedScans : \E vote \in VoteInputs(s) : SubmitAgentVote(s, vote)
  \/ \E s \in VotedScans : GetScanResult(s)

ObservedSpec == Init /\ [][ObservedNext]_vars

----------------------------------------------------------------------------
(* calculateConsensus and performAgentVoting, each applied on its own to an
   argument, and then to the same argument in another order.  Every order
   of a list is reached by exchanging neighbours. *)

ConsensusInit ==
  /\ runtimeAgents = <<>>
  /\ activeScans = <<>>
  /\ exec = <<>>
  /\ pendingVotes = <<>>
  /\ votesSubmitted = 0
  /\ hist = <<>>
  /\ voteTimeouts = <<>>
  /\ timers = <<>>
  /\ output = <<>>
  /\ githubCache = <<>> /\ calls = <<>> /\ cache = <<>> /\ now = 0
  /\ \/ /\ \E k \in 1..Len(VoteConfigs) : config = VoteConfigs[k]
        /\ input \in { [kind |-> "votes", votes |-> votes] :
                       votes \in VoteLists }
     \/ /\ config = ServiceConfig(<<>>)
        /\ input \in { [kind |-> "results", results |-> results] :
                       results \in ResultLists }

Swap(seq, i, j) == [seq EXCEPT ![i] = seq[j], ![j] = seq[i]]

\* voteEngine.calculateConsensus(votes)
CalculateConsensus ==
  /\ input.kind = "votes" /\ output = <<>>
  /\ output' = <<calculateConsensus(config, input.votes)>>
  /\ UNCHANGED <<runtimeAgents, activeScans, exec, pendingVotes, votesSubmitted, hist,
                 config, voteTimeouts, timers, input>>
  /\ UNCHANGED cacheVars

\* performAgentVoting(agentResults, scanId)
PerformAgentVoting ==
  /\ input.kind = "results" /\ output = <<>>
  /\ output' = <<performAgentVoting(input.results, 1)>>
  /\ UNCHANGED <<runtimeAgents, activeScans, exec, pendingVotes, votesSubmitted, hist,
                 config, voteTimeouts, timers, input>>
  /\ UNCHANGED cacheVars

\* calculateConsensus applied to the votes with two neighbours exchanged.
ReorderVotes(i) ==
  /\ input.kind = "votes" /\ output # <<>>
  /\ i < Len(input.votes)
  /\ \E votes \in { Swap(input.votes, i, i + 1) } :
       /\ input' = [input EXCEPT !.votes = votes]
       /\ output' = <<calculateConsensus(config, votes)>>
  /\ UNCHANGED <<runtimeAgents, activeScans, exec, pendingVotes, votesSubmitted, hist,
                 config, voteTimeouts, timers>>
  /\ UNCHANGED cacheVars

\* performAgentVoting applied to the results with two neighbours exchanged.
ReorderResults(i) ==
  /\ input.kind = "results" /\ output # <<>>
  /\ i < Len(input.results)
  /\ \E results \in { Swap(input.results, i, i + 1) } :
       /\ input' = [input EXCEPT !.results = results]
       /\ output' = <<performAgentVoting(results, 1)>>
  /\ UNCHANGED <<runtimeAgents, activeScans, exec, pendingVotes, votesSubmitted, hist,
                 config, voteTimeouts, timers>>
  /\ UNCHANGED cacheVars

ConsensusNext ==
  \/ CalculateConsensus
  \/ PerformAgentVoting
  \/ \E i \in 1..MaxVoteList : ReorderVotes(i)
  \/ \E i \in 1..MaxResults : ReorderResults(i)

ConsensusSpec == ConsensusInit /\ [][ConsensusNext]_vars

----------------------------------------------------------------------------
(* The vote engine used on its own.  hist.last holds for a finding and an
   agent the vote the agent submitted last since the votes of the finding
   were cleared, and hist.replaced tells whether some submitted vote found
   an earlier vote of its agent on its finding. *)

VoteInit ==
  /\ runtimeAgents = <<>>
  /\ activeScans = <<>>
  /\ exec = <<>>
  /\ pendingVotes = <<>>
  /\ votesSubmitted = 0
  /\ hist = [last |-> <<>>, replaced |-> FALSE]
  /\ \E k \in 1..Len(EngineConfigs) : config = EngineConfigs[k]
  /\ voteTimeouts = <<>>
  /\ timers = <<>>
  /\ input = None
  /\ output = <<>>
  /\ githubCache = <<>> /\ calls = <<>> /\ cache = <<>> /\ now = 0

EngineTimers == [voteTimeouts |-> voteTimeouts, timers |-> timers]

\* voteEngine.submitVote(vote)
SubmitVote(vote) ==
  /\ \E pv \in { submitVote(pendingVotes, vote) } :
       /\ pendingVotes' = pv
       /\ \E t \in { CheckAfterSubmit(config, pv, EngineTimers, vote.findingId) } :
            voteTimeouts' = t.voteTimeouts /\ timers' = t.timers
  /\ hist' = [last |-> Put(hist.last, <<vote.findingId, vote.agentId>>, vote),
              replaced |-> hist.replaced \/ <<vote.findingId, vote.agentId>> \in DOMAIN hist.last]
  /\ UNCHANGED <<runtimeAgents, activeScans, exec, votesSubmitted, config, input, output>>
  /\ UNCHANGED cacheVars

\* voteEngine.startVoteTimeout(findingId, callback)
StartVoteTimeout(findingId, callback) ==
  /\ Len(timers) < MaxTimers
  /\ \E t \in { startVoteTimeout(EngineTimers, findingId, callback) } :
       voteTimeouts' = t.voteTimeouts /\ timers' = t.timers
  /\ UNCHANGED <<runtimeAgents, activeScans, exec, pendingVotes, votesSubmitted, hist,
                 config, input, output>>
  /\ UNCHANGED cacheVars

\* The timeout of the armed timer h elapses.
TimerFires(h) ==
  /\ h \in 1..Len(timers) /\ timers[h].status = "armed"
  /\ timers[h].callback = "rearm" => Len(timers) < MaxTimers
  /\ \E t \in { TimeoutElapsed(EngineTimers, h) } :
       voteTimeouts' = t.voteTimeouts /\ timers' = t.timers
  /\ UNCHANGED <<runtimeAgents, activeScans, exec, pendingVotes, votesSubmitted, hist,
                 config, input, output>>
  /\ UNCHANGED cacheVars

\* voteEngine.clearVotes(findingId)
ClearVotes(findingId) ==
  /\ pendingVotes' = clearVotes(pendingVotes, findingId)
  /\ \E t \in { clearTimeout(EngineTimers, findingId) } :
       voteTimeouts' = t.voteTimeouts /\ timers' = t.timers
  /\ hist' = [hist EXCEPT !.last = [k \in {k \in DOMAIN @ : k[1] # findingId} |-> @[k]]]
  /\ UNCHANGED <<runtimeAgents, activeScans, exec, votesSubmitted, config, input, output>>
  /\ UNCHANGED cacheVars

VoteNext ==
  \/ \E vote \in EngineVotes : SubmitVote(vote)
  \/ \E findingId \in TimerFindings : \E callback \in Callbacks :
       StartVoteTimeout(findingId, callback)
  \/ \E h \in 1..MaxTimers : TimerFires(h)
  \/ \E findingId \in EngineFindings : ClearVotes(findingId)

VoteSpec == VoteInit /\ [][VoteNext]_vars

----------------------------------------------------------------------------
(* core/security-scanning-service.ts : fetchFromGitHub and its cache.
   A string that is formatted into another one is the sequence of its
   characters, so that a template literal is a concatenation. *)

SolSuffix == <<".", "s", "o", "l">>

\* name.endsWith('.sol')
EndsWithSol(name) ==
  Len(name) >= Len(SolSuffix) /\ SubSeq(name, Len(name) - Len(SolSuffix) + 1, Len(name)) = SolSuffix

\* What a fetch ends with: the files it resolves with, or the error it
\* rejects with.
Resolved(files) == [ok |-> TRUE, files |-> files]
Rejected == [ok |-> FALSE, files |-> <<>>]

\* The upstream repositories.  Both hold the same tree; the private one
\* answers only a request that carries the access token.
RepoPublic == <<"o", "/", "p">>
RepoPrivate == <<"o", "/", "s">>
ValidToken == "token"

DirItem(path, name) == [type |-> "dir", name |-> name, path |-> path, content |-> ""]
FileItem(path, name, content) == [type |-> "file", name |-> name, path |-> path, content |-> content]

PathA == <<"A", ".", "s", "o", "l">>
PathReadme == <<"R", ".", "m", "d">>
PathDocs == <<"d">>
PathNotes == <<"d", "/", "N", ".", "m", "d">>
PathB == <<"r", "o", "o", "t", "/", "B", ".", "s", "o", "l">>
PathLib == <<"l">>
PathLibC == <<"l", "/", "C", ".", "s", "o", "l">>
PathLibGone == <<"l", "/", "g">>
NameC == <<"C", ".", "s", "o", "l">>
NameGone == <<"g">>
NameNotes == <<"N", ".", "m", "d">>
NameB == <<"B", ".", "s", "o", "l">>

\* response.data of the contents API for a path of the tree: the listing of
\* a directory, or the object of a file.
Listing(items) == [isArray |-> TRUE, items |-> items, file |-> FileItem(<<>>, <<>>, "")]
Single(item) == [isArray |-> FALSE, items |-> <<>>, file |-> item]
\* The directory l lists a .sol file and a directory l/g whose own request
\* fails.
TreePaths == {<<>>, RootName, PathDocs, PathA, PathLib}
Tree(path) ==
  IF path = <<>> THEN Listing(<< DirItem(RootName, RootName), FileItem(PathA, PathA, "contract A"),
                                FileItem(PathReadme, PathReadme, "readme"),
                                DirItem(PathDocs, PathDocs) >>)
  ELSE IF path = RootName THEN Listing(<< FileItem(PathB, NameB, "contract B") >>)
  ELSE IF path = PathDocs THEN Listing(<< FileItem(PathNotes, NameNotes, "notes") >>)
  ELSE IF path = PathLib THEN Listing(<< FileItem(PathLibC, NameC, "contract C"),
                                         DirItem(PathLibGone, NameGone) >>)
  ELSE Single(FileItem(PathA, PathA, "contract A"))

\* axios.get(apiUrl, { headers }): whether the request is answered with data.
Answered(repo, path, accessToken) ==
  /\ path \in TreePaths
  /\ repo = RepoPublic \/ (repo = RepoPrivate /\ accessToken = ValidToken)

\* performGitHubFetch: the items of a listing become, in order, the files
\* of a directory, one .sol file, or nothing; the results are flattened.  A
\* request that fails anywhere makes the whole fetch reject.
RECURSIVE performGitHubFetch(_, _, _)
RECURSIVE FetchItems(_, _, _, _)
FetchItems(repo, items, n, accessToken) ==
  IF n = 0 THEN Resolved(<<>>)
  ELSE The({ IF ~before.ok THEN Rejected
             ELSE IF items[n].type = "dir"
               THEN The({ IF ~sub.ok THEN Rejected ELSE Resolved(before.files \o sub.files) :
                          sub \in { performGitHubFetch(repo, items[n].path, accessToken) } })
             ELSE IF items[n].type = "file" /\ EndsWithSol(items[n].name)
               THEN Resolved(Append(before.files,
                                    [path |-> items[n].path, content |-> items[n].content]))
             ELSE before :
             before \in { FetchItems(repo, items, n - 1, accessToken) } })

performGitHubFetch(repo, path, accessToken) ==
  IF ~Answered(repo, path, accessToken) THEN Rejected
  ELSE The({ IF data.isArray THEN FetchItems(repo, data.items, Len(data.items), accessToken)
             ELSE IF data.file.type = "file" /\ EndsWithSol(data.file.name)
               THEN Resolved(<< [path |-> data.file.path, content |-> data.file.content] >>)
             ELSE Resolved(<<>>) :
             data \in { Tree(path) } })

\* The head of fetchFromGitHub, lines 277-286, for the call r at the time t:
\* the call ends at once with the data of a fresh entry, or it awaits
\* performGitHubFetch.
BeginFetch(gc, r, t) ==
  The({ IF key \in DOMAIN gc /\ IsFresh(gc[key], t)
        THEN [repo |-> r.repo, path |-> r.path, accessToken |-> r.accessToken,
              pc |-> "done", upstream |-> 0, outcome |-> <<Resolved(gc[key].data)>>,
              startedAt |-> t, doneAt |-> t]
        ELSE [repo |-> r.repo, path |-> r.path, accessToken |-> r.accessToken,
              pc |-> "upstream", upstream |-> 1, outcome |-> <<>>,
              startedAt |-> t, doneAt |-> t] :
        key \in { cacheKey(r.repo, r.path) } })

\* Mutant: what a fetch has ended with is stored, a rejection as no files.
AfterFetch_storeAlways(gc, c, result, t) == StoreFetched(gc, c, result.files, t)

\* The cache after await performGitHubFetch: a rejection leaves
\* fetchFromGitHub before the set.
AfterFetch(gc, c, result, t) ==
  IF result.ok THEN StoreFetched(gc, c, result.files, t) ELSE gc

----------------------------------------------------------------------------
(* fetchFromGitHub used on its own: calls of fetchFromGitHub, each one a
   record of calls, against the upstream tree, while the clock advances. *)

serviceVars == <<runtimeAgents, activeScans, exec, pendingVotes, votesSubmitted,
                 hist, config, voteTimeouts, timers, input, output>>

FetchRequests ==
  { [repo |-> RepoPublic, path |-> <<>>, accessToken |-> None],
    [repo |-> RepoPublic, path |-> RootName, accessToken |-> None],
    [repo |-> RepoPublic, path |-> PathLib, accessToken |-> None],
    [repo |-> RepoPrivate, path |-> <<>>, accessToken |-> ValidToken],
    [repo |-> RepoPrivate, path |-> <<>>, accessToken |-> None] }

FetchInit ==
  /\ runtimeAgents = <<>>
  /\ activeScans = <<>>
  /\ exec = <<>>
  /\ pendingVotes = <<>>
  /\ votesSubmitted = 0
  /\ hist = <<>>
  /\ config = ServiceConfig(runtimeAgents)
  /\ voteTimeouts = <<>>
  /\ timers = <<>>
  /\ input = None
  /\ output = <<>>
  /\ githubCache = <<>> /\ calls = <<>> /\ cache = <<>> /\ now = 0

\* fetchFromGitHub(repo, path, accessToken) up to its await or its return.
FetchFromGitHub(r) ==
  /\ Len(calls) < MaxCalls
  /\ calls' = Append(calls, BeginFetch(githubCache, r, now))
  /\ UNCHANGED <<githubCache, cache, now>>
  /\ UNCHANGED serviceVars

\* performGitHubFetch of the call c settles: fetchFromGitHub stores and
\* returns the files, or the rejection leaves it.
PerformGitHubFetchSettles(c) ==
  /\ c \in 1..Len(calls)
  /\ calls[c].pc = "upstream"
  /\ LET result == performGitHubFetch(calls[c].repo, calls[c].path, calls[c].accessToken)
     IN
       /\ calls' = [calls EXCEPT ![c].pc = "done", ![c].outcome = <<result>>, ![c].doneAt = now]
       /\ githubCache' = AfterFetch(githubCache, calls[c], result, now)
  /\ UNCHANGED <<cache, now>>
  /\ UNCHANGED serviceVars

\* Date.now() advances.
ClockAdvances ==
  /\ now < MaxTicks * CLEANUP_INTERVAL
  /\ now' = now + CLEANUP_INTERVAL
  /\ UNCHANGED <<githubCache, calls, cache>>
  /\ UNCHANGED serviceVars

FetchNext ==
  \/ \E r \in FetchRequests : FetchFromGitHub(r)
  \/ \E c \in 1..MaxCalls : PerformGitHubFetchSettles(c)
  \/ ClockAdvances

FetchSpec == FetchInit /\ [][FetchNext]_vars

----------------------------------------------------------------------------
(* core/cache-service.ts.  The Map cache is the sequence of its entries in
   insertion order, each entry a CacheItem with its key. *)

Null == "null"

\* The index of the entry of key in c, 0 when c has none.
IndexOfKey(c, key) ==
  IF \E i \in 1..Len(c) : c[i].key = key
  THEN CHOOSE i \in 1..Len(c) : c[i].key = key
  ELSE 0

\* Map.delete: the entry at index i leaves, the others keep their order.
RemoveAt(c, i) == SubSeq(c, 1, i - 1) \o SubSeq(c, i + 1, Len(c))

\* Map.set: an entry of the key is replaced where it is, a new one is last.
MapSet(c, item) ==
  IF IndexOfKey(c, item.key) # 0 THEN [c EXCEPT ![IndexOfKey(c, item.key)] = item]
  ELSE Append(c, item)

\* now - item.timestamp > item.ttl
IsExpired(item, t) == t - item.timestamp > item.ttl

\* evictLeastUsed: the loop keeps the first entry of the least hits; the
\* entry is deleted if (leastUsedKey), that is unless its key is ''.
evictLeastUsed(c) ==
  IF Len(c) = 0 THEN c
  ELSE The({ IF c[least].key # "" THEN RemoveAt(c, least) ELSE c :
             least \in { CHOOSE i \in 1..Len(c) :
                           /\ \A j \in 1..Len(c) : c[i].hits <= c[j].hits
                           /\ \A j \in 1..(i - 1) : c[j].hits > c[i].hits } })

\* set(key, data, ttl) at the time t; ttl 0 stands for a ttl that is not
\* given, which ttl || DEFAULT_TTL treats as 0.
set(c, key, data, ttl, t) ==
  MapSet(IF Len(c) >= MaxCacheSize THEN evictLeastUsed(c) ELSE c,
         [key |-> key, data |-> data, timestamp |-> t,
          ttl |-> IF ttl # 0 THEN ttl ELSE DEFAULT_TTL, hits |-> 0])

\* get(key) at the time t: the cache it leaves and the value it returns.
get(c, key, t) ==
  The({ IF i = 0 THEN [cache |-> c, value |-> Null]
        ELSE IF IsExpired(c[i], t) THEN [cache |-> RemoveAt(c, i), value |-> Null]
        ELSE [cache |-> [c EXCEPT ![i].hits = @ + 1], value |-> c[i].data] :
        i \in { IndexOfKey(c, key) } })

\* has(key): this.get(key) !== null
has(c, key, t) ==
  The({ [cache |-> got.cache, value |-> got.value # Null] : got \in { get(c, key, t) } })

\* delete(key)
delete(c, key) == IF IndexOfKey(c, key) # 0 THEN RemoveAt(c, IndexOfKey(c, key)) ELSE c

\* cleanupExpired at the time t
cleanupExpired(c, t) == SelectSeq(c, LAMBDA item : ~IsExpired(item, t))

----------------------------------------------------------------------------
(* CacheService used on its own. *)

CacheKeys == {"", "a", "b"}
CacheData == {"d1"}
CacheTtls == {0, GITHUB_CACHE_TTL}

Set(key, data, ttl) ==
  /\ cache' = set(cache, key, data, ttl, now)
  /\ UNCHANGED <<githubCache, calls, now>>
  /\ UNCHANGED serviceVars

\* get(key); the hit counters are followed up to MaxHits.
Get(key) ==
  /\ \A i \in 1..Len(cache) : cache[i].key = key => cache[i].hits < MaxHits
  /\ cache' = get(cache, key, now).cache
  /\ UNCHANGED <<githubCache, calls, now>>
  /\ UNCHANGED serviceVars

Has(key) ==
  /\ \A i \in 1..Len(cache) : cache[i].key = key => cache[i].hits < MaxHits
  /\ cache' = has(cache, key, now).cache
  /\ UNCHANGED <<githubCache, calls, now>>
  /\ UNCHANGED serviceVars

Delete(key) ==
  /\ cache' = delete(cache, key)
  /\ UNCHANGED <<githubCache, calls, now>>
  /\ UNCHANGED serviceVars

\* The callback of setInterval in initialize, run while the interval is not
\* cleared.
CleanupExpired ==
  /\ timers[1].status = "armed"
  /\ cache' = cleanupExpired(cache, now)
  /\ UNCHANGED <<githubCache, calls, now>>
  /\ UNCHANGED serviceVars

\* clear(): every entry is removed.
Clear ==
  /\ cache' = <<>>
  /\ UNCHANGED <<githubCache, calls, now>>
  /\ UNCHANGED serviceVars

\* stop(): the interval of the cleanup is cleared, if it is set, and every
\* entry is removed.  The service object stays in use.
Stop ==
  /\ timers' = CancelTimer(timers, 1)
  /\ cache' = <<>>
  /\ UNCHANGED <<githubCache, calls, now>>
  /\ UNCHANGED <<runtimeAgents, activeScans, exec, pendingVotes, votesSubmitted, hist>>
  /\ UNCHANGED <<config, voteTimeouts, input, output>>

\* The service after start: initialize has set the interval of the cleanup,
\* whose handle cleanupInterval holds until stop clears it, and the cache is
\* empty.
CacheInit ==
  /\ runtimeAgents = <<>>
  /\ activeScans = <<>>
  /\ exec = <<>>
  /\ pendingVotes = <<>>
  /\ votesSubmitted = 0
  /\ hist = <<>>
  /\ config = ServiceConfig(runtimeAgents)
  /\ voteTimeouts = <<>>
  /\ timers = << [findingId |-> None, callback |-> "cleanupExpired", status |-> "armed"] >>
  /\ input = None
  /\ output = <<>>
  /\ githubCache = <<>> /\ calls = <<>> /\ cache = <<>> /\ now = 0

CacheNext ==
  \/ \E key \in CacheKeys : \E data \in CacheData : \E ttl \in CacheTtls : Set(key, data, ttl)
  \/ \E key \in CacheKeys : Get(key)
  \/ \E key \in CacheKeys : Has(key)
  \/ \E key \in CacheKeys : Delete(key)
  \/ CleanupExpired
  \/ Clear
  \/ Stop
  \/ ClockAdvances

CacheSpec == CacheInit /\ [][CacheNext]_vars

----------------------------------------------------------------------------
(* Scans that run concurrently: one scan more than Spec starts, on a runtime
   of one agent, so that the steps of several scans interleave, while the
   clock advances and the entries of githubCache age and expire. *)

ConcurrentScans == MaxScans + 1
ConcurrentIds == 1..ConcurrentScans
ConcurrentAgents == SubSeq(AgentCatalog, 1, 1)

ConcurrentInit ==
  /\ runtimeAgents = ConcurrentAgents
  /\ activeScans = <<>>
  /\ exec = <<>>
  /\ pendingVotes = <<>>
  /\ votesSubmitted = 0
  /\ hist = <<>>
  /\ config = ServiceConfig(runtimeAgents)
  /\ voteTimeouts = <<>>
  /\ timers = <<>>
  /\ input = None
  /\ output = <<>>
  /\ githubCache = <<>> /\ calls = <<>> /\ cache = <<>> /\ now = 0

\* The steps of executeScan with one agent: its single batch is the last
\* one, so that the pause between batches is never taken.
ConcurrentStep(s) ==
  \/ \E files \in RepoFileSets : FetchStores(s, files)
  \/ \E files \in RepoFileSets : FetchReturn(s, files)
  \/ FetchThrow(s)
  \/ GetAgentsReturn(s)
  \/ GetAgentsThrow(s)
  \/ \E i \in 1..Len(ConcurrentAgents) : AnalyzerReturn(s, i)
  \/ \E i \in 1..Len(ConcurrentAgents) : AnalyzerThrow(s, i)
  \/ BatchDone(s)
  \/ CompleteScan(s)

\* The votes submitted while the scans run side by side: the vote of the
\* agent on the first confirmed finding of the scan, for each scan.
ConcurrentVoteInputs(scanId) ==
  { [agentId |-> "agent-1", findingId |-> <<scanId, "confirmed", 0>>,
     vote |-> "CONFIRMED", confidence |-> 80] }

ConcurrentNext ==
  \/ \E request \in Requests : StartScanWithin(request, ConcurrentScans)
  \/ \E s \in ConcurrentIds : ConcurrentStep(s)
  \/ \E s \in ConcurrentIds : \E vote \in ConcurrentVoteInputs(s) : SubmitAgentVote(s, vote)
  \/ ClockAdvances

ConcurrentSpec == ConcurrentInit /\ [][ConcurrentNext]_vars

----------------------------------------------------------------------------
(* A scan with one agent for whose findings votes are submitted: for the
   first finding the analysis reports, under the id triggerAgentAnalysis
   gives it, and for the first confirmed finding. *)

FindingVotes ==
  ScanVotes \cup
  { [agentId |-> "agent-1", findingId |-> <<scanId, "reentrancy", "A.sol", 2>>,
     vote |-> "CONFIRMED", confidence |-> 80] : scanId \in ScanIds }
FindingVoteInputs(scanId) == { vote \in FindingVotes : vote.findingId[1] = scanId }

FindingVoteNext ==
  \/ \E request \in Requests : StartScan(request)
  \/ \E s \in ScanIds : ConcurrentStep(s)
  \/ \E s \in VotedScans : \E vote \in FindingVoteInputs(s) : SubmitAgentVote(s, vote)

FindingVoteSpec == ConcurrentInit /\ [][FindingVoteNext]_vars

----------------------------------------------------------------------------
(* Properties *)

Last(seq) == seq[Len(seq)]

\* The tally of a group over a dispatch result list: its raw findings.
RawTally(results, type, severity) ==
  Cardinality({p \in UNION {{<<i, j>> : j \in 1..Len(results[i].findings)} :
                              i \in 1..Len(results)} :
                 /\ results[p[1]].findings[p[2]].type = type
                 /\ results[p[1]].findings[p[2]].severity = severity})
\* The results of the list that hold a finding of the group.
Reporters(results, type, severity) ==
  {i \in 1..Len(results) :
     \E j \in 1..Len(results[i].findings) :
       results[i].findings[j].type = type /\ results[i].findings[j].severity = severity}

AllowedChange(from, to) ==
  \/ <<from, to>> \in {<<"PENDING", "SCANNING">>, <<"SCANNING", "VOTING">>,
                       <<"VOTING", "COMPLETED">>}
  \/ to = "FAILED" /\ ~Terminal(from)

\* C1 (as claimed): every status change of a scan is PENDING->SCANNING,
\* SCANNING->VOTING, VOTING->COMPLETED or X->FAILED for a non-terminal X, and
\* a COMPLETED scan has been in VOTING before.
C1_StatusChangesFollowStateMachine ==
  \A s \in Created :
    /\ \A k \in 1..Len(hist[s].statuses) - 1 :
         AllowedChange(hist[s].statuses[k], hist[s].statuses[k + 1])
    /\ activeScans[s].status = "COMPLETED" =>
         \E k \in 1..Len(hist[s].statuses) : hist[s].statuses[k] = "VOTING"

\* C2 (as claimed): once a scan is COMPLETED or FAILED, no step changes any
\* field of its record.
C2_TerminalScanIsReadOnly ==
  [][\A s \in Created :
       Terminal(activeScans[s].status) => activeScans'[s] = activeScans[s]]_vars

\* C3: every element of scan.findings comes from a group of raw findings
\* whose tally is at least ceil(0.6 x number of analyzer results), and
\* scan.findings is empty until the consensus step has completed the scan.
C3_FindingsPassedConsensus ==
  \A s \in Created :
    LET scan == activeScans[s]
        results == exec[s].analysisResults
    IN /\ scan.status # "COMPLETED" => scan.findings = <<>>
       /\ \A k \in 1..Len(scan.findings) :
            LET f == scan.findings[k] IN
              /\ 5 * RawTally(results, f.type, f.severity) >= 3 * Len(results)
              /\ \E i \in 1..Len(results) : \E j \in 1..Len(results[i].findings) :
                   /\ results[i].findings[j].type = f.type
                   /\ results[i].findings[j].severity = f.severity
                   /\ results[i].findings[j].location = f.location

\* C3 witness: a completed scan with confirmed findings although an analyzer failed.
C3_Witness ==
  \E s \in Created :
    /\ activeScans[s].status = "COMPLETED"
    /\ activeScans[s].findings # <<>>
    /\ hist[s].threw # {}

\* C4: every submitted scan eventually is COMPLETED or FAILED.
C4_ScanTerminates ==
  \A s \in ScanIds :
    (s \in Created) ~> (s \in Created /\ Terminal(activeScans[s].status))

\* C4 witness: a scan that went through two batches has reached a terminal status.
C4_Witness ==
  \E s \in Created :
    /\ Terminal(activeScans[s].status)
    /\ exec[s].batch > 1

\* C5 (as claimed): a confirmed group was reported by at least
\* ceil(0.6 x N) distinct analyzers, and its tally does not exceed N.
C5_GroupConfirmedByDistinctAnalyzers ==
  \A s \in Created :
    activeScans[s].status = "COMPLETED" =>
      \A k \in 1..Len(activeScans[s].findings) :
        LET f == activeScans[s].findings[k]
            results == exec[s].analysisResults
        IN /\ 5 * Cardinality(Reporters(results, f.type, f.severity)) >= 3 * Len(results)
           /\ RawTally(results, f.type, f.severity) <= Len(results)

\* C6: every value assigned to a scan's progress is within 0..100 and not
\* below the value assigned before it; the record holds the last one.
C6_ProgressMonotone ==
  \A s \in Created :
    LET p == hist[s].progress IN
      /\ activeScans[s].progress = Last(p)
      /\ \A k \in 1..Len(p) :
           /\ RatLeq(Num(0), p[k]) /\ RatLeq(p[k], Num(100))
           /\ k > 1 => RatLeq(p[k - 1], p[k])

\* C6 witness: a scan whose progress took a value between two batches.
C6_Witness ==
  \E s \in Created :
    /\ exec[s].pc = "pause"
    /\ RatLess(Num(ProgressSetup), activeScans[s].progress)
    /\ RatLess(activeScans[s].progress, Num(ProgressAnalysed))

\* C7 (as claimed): when startScan returns, the new record is PENDING with
\* progress 0.
C7_SubmitLeavesScanPending ==
  [][\A s \in ScanIds :
       (s \notin DOMAIN activeScans /\ s \in DOMAIN activeScans') =>
         /\ activeScans'[s].status = "PENDING"
         /\ activeScans'[s].progress = Num(0)]_vars

\* C8 (as claimed): no scan record exists for a request with neither a
\* repository nor a contract address plus chain.
C8_MalformedRequestCreatesNoScan ==
  \A s \in Created : FetchSource(exec[s].request) # "none"

\* C9: a scan whose fetch failed is FAILED with progress 100, has no
\* findings, and none of its analyzers was invoked.
C9_FetchFailureFailsScan ==
  \A s \in Created :
    hist[s].fetch = "failed" =>
      /\ activeScans[s].status = "FAILED"
      /\ activeScans[s].progress = Num(100)
      /\ activeScans[s].findings = <<>>
      /\ hist[s].invoked = <<>>
      /\ exec[s].running = {} /\ exec[s].analysisResults = <<>>

\* C9 witness: the fetch of a repository scan failed upstream.
C9_Witness ==
  \E s \in Created :
    /\ hist[s].fetch = "failed"
    /\ FetchSource(exec[s].request) = "github"

\* C10: the dispatch result of an analyzer that threw is its id with no
\* findings; every other analyzer is invoked and its findings are kept; the
\* scan does not fail.
C10_AnalyzerFailureIsAbsorbed ==
  \A s \in Created :
    LET e == exec[s]
        results == e.analysisResults
    IN /\ results # <<>> =>
            \A findings \in { triggerAgentAnalysis(s, e.files, FALSE) } :
              \A i \in 1..Len(results) :
                /\ results[i].agentId = AgentIdOf(e.agents[i])
                /\ results[i].findings = IF i \in hist[s].threw THEN <<>> ELSE findings
       /\ hist[s].threw # {} => activeScans[s].status # "FAILED"
       /\ e.pc \in {"pause", "voting"} \/ activeScans[s].status = "COMPLETED" =>
            /\ Len(results) = e.completedAgents
            /\ hist[s].invoked = [k \in 1..e.completedAgents |-> k]
       /\ e.pc = "voting" \/ activeScans[s].status = "COMPLETED" =>
            Len(results) = Len(e.agents)

\* C10 witness: a scan completed with findings after an analyzer of its first
\* batch threw and a later batch ran.
C10_Witness ==
  \E s \in Created :
    /\ activeScans[s].status = "COMPLETED"
    /\ 1 \in hist[s].threw
    /\ exec[s].batch > 1
    /\ \E i \in 1..Len(exec[s].analysisResults) :
         exec[s].analysisResults[i].findings # <<>>

\* C11: no analyzer of a scan is invoked before its fetch has completed
\* successfully, and the voting starts only when every selected analyzer has
\* been invoked and has completed.
C11_FetchThenAnalyzersThenVoting ==
  \A s \in Created :
    LET e == exec[s] IN
      /\ (hist[s].invoked # <<>> \/ e.running # {}) => hist[s].fetch = "ok"
      /\ (e.pc = "voting" \/ activeScans[s].status = "COMPLETED") =>
           /\ e.running = {}
           /\ {hist[s].invoked[k] : k \in 1..Len(hist[s].invoked)} = 1..Len(e.agents)
           /\ Len(e.analysisResults) = Len(e.agents)

\* C11 witness: the voting is about to start after two batches, one of whose
\* analyzers failed.
C11_Witness ==
  \E s \in Created :
    /\ exec[s].pc = "voting"
    /\ Len(exec[s].agents) > CONCURRENCY_LIMIT
    /\ hist[s].threw # {}

\* C12: at most CONCURRENCY_LIMIT analyzers of a scan are in flight, the
\* analyzers are invoked in consecutive order, and an analyzer is in flight
\* only when the results of all analyzers of the earlier batches are recorded.
C12_BatchesOfBoundedConcurrency ==
  \A s \in Created :
    LET e == exec[s] IN
      /\ Cardinality(e.running) <= CONCURRENCY_LIMIT
      /\ hist[s].invoked = [k \in 1..Len(hist[s].invoked) |-> k]
      /\ \A i \in e.running :
           /\ i \in {hist[s].invoked[k] : k \in 1..Len(hist[s].invoked)}
           /\ \A j \in 1..Len(e.agents) :
                (j - 1) \div CONCURRENCY_LIMIT < (i - 1) \div CONCURRENCY_LIMIT =>
                  j <= Len(e.analysisResults)

\* C12 witness: the second batch is in flight after a full first batch.
C12_Witness ==
  \E s \in Created :
    /\ exec[s].batch = 2 /\ exec[s].running # {}
    /\ Len(exec[s].analysisResults) = CONCURRENCY_LIMIT

\* The number of the votes of a list that have the decision d.
CountVotes(votes, d) == Cardinality({i \in 1..Len(votes) : votes[i].vote = d})

\* count / total >= threshold, in exact arithmetic.
IsQuorum(count, total, threshold) == count * threshold[2] >= threshold[1] * total

\* C13: calculateConsensus decides by quorum alone, and the threshold is
\* inclusive.  For a non-empty vote list the result is CONFIRMED and reached
\* exactly when the confirming share of the votes is at least the threshold;
\* it is REJECTED and reached exactly when that is not so and the rejecting
\* share is at least the threshold; it is UNCERTAIN and not reached exactly
\* when neither share is.  With 3 of 5 votes confirming at 0.6 the result is
\* CONFIRMED, with 2 of 5 it is not reached.
C13_QuorumAloneDecides ==
  (input.kind = "votes" /\ output # <<>> /\ Len(input.votes) > 0) =>
    LET n == Len(input.votes)
        confirmed == IsQuorum(CountVotes(input.votes, "CONFIRMED"), n, config.consensusThreshold)
        rejected == IsQuorum(CountVotes(input.votes, "REJECTED"), n, config.consensusThreshold)
        result == output[1]
    IN /\ (result.finalDecision = "CONFIRMED" /\ result.consensusReached) <=> confirmed
       /\ (result.finalDecision = "REJECTED" /\ result.consensusReached) <=>
            (~confirmed /\ rejected)
       /\ (result.finalDecision = "UNCERTAIN" /\ ~result.consensusReached) <=>
            (~confirmed /\ ~rejected)
       /\ result.consensusReached <=> result.finalDecision # "UNCERTAIN"

\* C13 witness: exactly 3 of 5 votes confirm at the threshold 0.6, and the
\* result is CONFIRMED.
C13_Witness ==
  /\ input.kind = "votes" /\ output # <<>>
  /\ Len(input.votes) = 5 /\ CountVotes(input.votes, "CONFIRMED") = 3
  /\ config.consensusThreshold = <<ThresholdNum, ThresholdDen>>
  /\ output[1].finalDecision = "CONFIRMED" /\ output[1].consensusReached

\* Exact arithmetic on fractions.
RatAdd(p, q) == Rat(p[1] * q[2] + q[1] * p[2], p[2] * q[2])
RatMul(p, q) == Rat(p[1] * q[1], p[2] * q[2])
RatDiv(p, q) == Rat(p[1] * q[2], p[2] * q[1])

\* The confidence of a vote as the tally takes it: multiplied by the weight
\* of its agent when weighting is enabled and the agent has a weight.
TalliedConfidence(cfg, vote) ==
  IF /\ cfg.weightingEnabled /\ cfg.agentWeights.defined
     /\ vote.agentId \in DOMAIN cfg.agentWeights.weight
     /\ cfg.agentWeights.weight[vote.agentId][1] # 0
  THEN RatMul(Num(vote.confidence), cfg.agentWeights.weight[vote.agentId])
  ELSE Num(vote.confidence)

\* The sum of the tallied confidences of the votes 1..n that have the
\* decision d.
RECURSIVE TalliedSum(_, _, _, _)
TalliedSum(cfg, votes, d, n) ==
  IF n = 0 THEN Num(0)
  ELSE IF votes[n].vote = d
  THEN RatAdd(TalliedSum(cfg, votes, d, n - 1), TalliedConfidence(cfg, votes[n]))
  ELSE TalliedSum(cfg, votes, d, n - 1)

\* The mean confidence of the votes with the decision d, multiplied by their
\* share of the votes; the share, and the product, is 0 when no vote has the
\* decision.
MeanTimesShare(cfg, votes, d) ==
  IF CountVotes(votes, d) = 0 THEN Num(0)
  ELSE RatMul(RatDiv(TalliedSum(cfg, votes, d, Len(votes)), Num(CountVotes(votes, d))),
              Rat(CountVotes(votes, d), Len(votes)))

\* The list is two CONFIRMED votes and one REJECTED vote, in some order.
IsScenarioA(votes) ==
  /\ Len(votes) = 3
  /\ CountVotes(votes, "CONFIRMED") = 2
  /\ CountVotes(votes, "REJECTED") = 1

\* C14 (as claimed): for every non-empty vote list the confidence score is
\* the mean confidence of the votes with the final decision times their
\* share of all votes, rounded to the nearest integer as Math.round rounds
\* (a half goes up).  For two CONFIRMED votes of confidence c1, c2 and one
\* REJECTED vote at the threshold 0.6 the decision is CONFIRMED and the score
\* is round(((c1 + c2) / 2) * 2 / 3).
C14_ConfidenceIsRoundedMeanTimesShare ==
  (input.kind = "votes" /\ output # <<>> /\ Len(input.votes) > 0) =>
    LET result == output[1]
        votes == input.votes
        q == MeanTimesShare(config, votes, result.finalDecision)
    IN /\ result.confidenceScore = Round(q[1], q[2])
       /\ (IsScenarioA(votes) /\ config.consensusThreshold = <<ThresholdNum, ThresholdDen>>) =>
            result.finalDecision = "CONFIRMED"

\* The (type, severity) groups of the findings performAgentVoting confirmed.
ConfirmedGroups(finalResults) ==
  { GroupKey(finalResults.confirmedFindings[k]) :
    k \in 1..Len(finalResults.confirmedFindings) }

\* C16: the result of calculateConsensus (decision, reached flag, confidence
\* score and vote breakdown) is the same for a vote list and for the list in
\* another order, and the set of the groups the voting step of a scan
\* confirms is the same for the analyzer results in another order.
C16_OrderIndependent ==
  [][(output # <<>> /\ output' # <<>>) =>
       IF input.kind = "votes" THEN output'[1] = output[1]
       ELSE ConfirmedGroups(output'[1]) = ConfirmedGroups(output[1])]_vars

\* The confidences of the raw findings of a group over a result list.
GroupConfidences(results, type, severity) ==
  UNION { { results[i].findings[j].confidence :
            j \in { j \in 1..Len(results[i].findings) :
                      /\ results[i].findings[j].type = type
                      /\ results[i].findings[j].severity = severity } } :
          i \in 1..Len(results) }

\* C15 (as claimed): a confirmed finding of a completed scan is a member of
\* its group with the highest confidence of the group, and the confidence it
\* reports is that confidence scaled by the share of the analyzers that
\* reported the group, so that it is lower whenever not all analyzers agree.
C15_ConfidenceScaledByAgreement ==
  \A s \in Created :
    activeScans[s].status = "COMPLETED" =>
      \A k \in 1..Len(activeScans[s].findings) :
        LET f == activeScans[s].findings[k]
            results == exec[s].analysisResults
            agreeing == Cardinality(Reporters(results, f.type, f.severity))
            highest == CHOOSE c \in GroupConfidences(results, f.type, f.severity) :
                         \A d \in GroupConfidences(results, f.type, f.severity) : d <= c
        IN /\ \E i \in 1..Len(results) : \E j \in 1..Len(results[i].findings) :
                /\ results[i].findings[j].type = f.type
                /\ results[i].findings[j].severity = f.severity
                /\ results[i].findings[j].location = f.location
                /\ results[i].findings[j].confidence = highest
           /\ f.confidence = Round(highest * agreeing, Len(results))
           /\ agreeing < Len(results) => f.confidence < highest

\* The votes of a list other than those of the agent a, in order.
VotesOfOthers(votes, a) == SelectSeq(votes, LAMBDA v : v.agentId # a)

\* C17: the vote engine holds for a finding at most one vote per agent, and
\* it is the vote the agent submitted last; a submitVote for a finding and an
\* agent leaves exactly that vote as the agent's vote on the finding, and it
\* leaves the votes of the other agents on the finding, in their order, and
\* the votes on the other findings as they were.
C17_OneVotePerAnalyzer ==
  /\ [](\A f \in DOMAIN pendingVotes :
          /\ \A i, j \in 1..Len(pendingVotes[f]) :
               i # j => pendingVotes[f][i].agentId # pendingVotes[f][j].agentId
          /\ \A i \in 1..Len(pendingVotes[f]) :
               /\ <<f, pendingVotes[f][i].agentId>> \in DOMAIN hist.last
               /\ pendingVotes[f][i] = hist.last[<<f, pendingVotes[f][i].agentId>>])
  /\ [][\A vote \in EngineVotes : SubmitVote(vote) =>
          /\ SelectSeq(getVotes(pendingVotes', vote.findingId),
                       LAMBDA v : v.agentId = vote.agentId) = <<vote>>
          /\ VotesOfOthers(getVotes(pendingVotes', vote.findingId), vote.agentId) =
               VotesOfOthers(getVotes(pendingVotes, vote.findingId), vote.agentId)
          /\ \A g \in EngineFindings \ {vote.findingId} :
               /\ g \in DOMAIN pendingVotes' <=> g \in DOMAIN pendingVotes
               /\ getVotes(pendingVotes', g) = getVotes(pendingVotes, g)]_vars

\* C17 witness: an agent has replaced its vote on a finding that holds the
\* vote of another agent too, and another finding holds a vote.
C17_Witness ==
  /\ hist.replaced
  /\ Len(getVotes(pendingVotes, "f1")) = 2
  /\ Len(getVotes(pendingVotes, "f2")) = 1

\* The timers of a finding that are armed.
ArmedTimers(findingId) ==
  {h \in 1..Len(timers) : timers[h].findingId = findingId /\ timers[h].status = "armed"}

\* A timer that is cleared stays cleared: its callback is not invoked.
ClearedStaysCleared ==
  \A h \in 1..Len(timers) : timers[h].status = "cleared" => timers'[h].status = "cleared"

\* C19 (as claimed, for the votes checkConsensus examines): when after a
\* submitVote a finding holds at least minimumVotes votes and they satisfy the
\* quorum, every armed timer of the finding is cancelled, and a cancelled
\* timer never fires.
C19_QuorumCancelsArmedTimers ==
  /\ [][\A vote \in EngineVotes : SubmitVote(vote) =>
          ((/\ Len(getVotes(pendingVotes', vote.findingId)) >= config.minimumVotes
            /\ calculateConsensus(config, getVotes(pendingVotes', vote.findingId)).consensusReached) =>
             \A h \in ArmedTimers(vote.findingId) : timers'[h].status = "cleared")]_vars
  /\ [][ClearedStaysCleared]_vars

\* C20 (as claimed): at most one timer of a finding is armed, and a timer
\* does not fire once a later timer was started for its finding.
C20_OneArmedTimerPerFinding ==
  /\ [](\A f \in TimerFindings : Cardinality(ArmedTimers(f)) <= 1)
  /\ [][\A h \in 1..Len(timers) :
          (\E later \in h + 1..Len(timers) : timers[later].findingId = timers[h].findingId) =>
            ~(timers[h].status = "armed" /\ timers'[h].status = "fired")]_vars

\* C18 (as claimed): the agentVotes of a scan never hold two votes of one
\* agent on one finding, and a submitAgentVote of a vote that the scan holds
\* already leaves agentVotes as it was.
C18_ResubmissionIsIdempotent ==
  /\ [](\A s \in Created :
          \A i, j \in 1..Len(activeScans[s].agentVotes) :
            i # j => \/ activeScans[s].agentVotes[i].agentId # activeScans[s].agentVotes[j].agentId
                     \/ activeScans[s].agentVotes[i].findingId # activeScans[s].agentVotes[j].findingId)
  /\ [][\A s \in VotedScans : \A vote \in VoteInputs(s) :
          (SubmitAgentVote(s, vote) /\ Len(activeScans[s].agentVotes) > 0
             /\ Last(activeScans[s].agentVotes) = vote) =>
            activeScans'[s].agentVotes = activeScans[s].agentVotes]_vars

\* C22: what calculateConsensus and getFinalResult report for the votes of a
\* finding is the same under every minimumVotes; reached is reported exactly
\* when the confirming or the rejecting share of the votes is at least the
\* threshold, also for fewer than minimumVotes votes, for which the check of
\* submitVote reports nothing.
C22_MinimumVotesOnlyGatesCheck ==
  \A f \in DOMAIN pendingVotes :
    LET votes == getVotes(pendingVotes, f)
        result == getFinalResult(config, pendingVotes, f)
        quorum == \/ IsQuorum(CountVotes(votes, "CONFIRMED"), Len(votes), config.consensusThreshold)
                  \/ IsQuorum(CountVotes(votes, "REJECTED"), Len(votes), config.consensusThreshold)
    IN /\ result.consensusReached <=> quorum
       /\ result.consensusReached <=> result.finalDecision # "UNCERTAIN"
       /\ calculateConsensus(config, votes).consensusReached = result.consensusReached
       /\ calculateConsensus(config, votes).finalDecision = result.finalDecision
       /\ \A m \in {1, config.minimumVotes + 1} :
            getFinalResult([config EXCEPT !.minimumVotes = m], pendingVotes, f) = result
       /\ Len(votes) < config.minimumVotes => ~checkConsensus(config, pendingVotes, f)

\* C22 witness: one vote, fewer than minimumVotes, meets the quorum and is
\* reported as reached, while the timer of the finding is still armed.
C22_Witness ==
  /\ Len(getVotes(pendingVotes, "f1")) = 1 /\ config.minimumVotes = 2
  /\ getFinalResult(config, pendingVotes, "f1").consensusReached
  /\ "f1" \in DOMAIN voteTimeouts /\ timers[voteTimeouts["f1"]].status = "armed"

\* What is reported for no votes.
NoConsensus ==
  [consensusReached |-> FALSE, finalDecision |-> "UNCERTAIN", confidenceScore |-> 0,
   voteBreakdown |-> <<>>]
NoFinalResult ==
  [consensusReached |-> FALSE, finalDecision |-> "UNCERTAIN", confidenceScore |-> 0,
   voteBreakdown |-> <<>>, totalVotes |-> 0]

\* C23: calculateConsensus of no votes reports not reached, UNCERTAIN and
\* the confidence 0; getFinalResult reports the same, with totalVotes 0, for
\* a finding that holds no votes, and for a finding right after clearVotes.
C23_NoVotesNoConsensus ==
  /\ [](/\ calculateConsensus(config, <<>>) = NoConsensus
        /\ \A f \in EngineFindings \ DOMAIN pendingVotes :
             getFinalResult(config, pendingVotes, f) = NoFinalResult)
  /\ [][\A f \in EngineFindings :
          ClearVotes(f) => getFinalResult(config, pendingVotes', f) = NoFinalResult]_vars

\* C23 witness: votes were submitted and replaced, and none is held after
\* clearVotes.
C23_Witness ==
  /\ hist.replaced /\ pendingVotes = <<>>
  /\ getFinalResult(config, pendingVotes, "f1").totalVotes = 0

\* The entry of githubCache that a call of fetchFromGitHub for r looks up.
HasEntry(r) == cacheKey(r.repo, r.path) \in DOMAIN githubCache
EntryAge(r) == now - githubCache[cacheKey(r.repo, r.path)].timestamp
SameTarget(a, b) == a.repo = b.repo /\ a.path = b.path
Fetched(call) == call.pc = "done" /\ call.upstream = 1 /\ call.outcome[1].ok

\* C24: a fetch that finds an entry younger than the TTL returns the cached
\* list without an upstream call, so a fetch of the (repo, path) that an
\* earlier fetch has brought from upstream less than the TTL ago adds no
\* upstream fetch; a fetch that finds an entry older than the TTL calls
\* upstream, and the list it brings replaces the entry.
C24_FreshEntryServedStaleEntryRefetched ==
  [][ /\ \A r \in FetchRequests : FetchFromGitHub(r) =>
           /\ (HasEntry(r) /\ EntryAge(r) < GITHUB_CACHE_TTL) =>
                /\ Last(calls').pc = "done"
                /\ Last(calls').upstream = 0
                /\ Last(calls').outcome = <<Resolved(githubCache[cacheKey(r.repo, r.path)].data)>>
           /\ (\E i \in 1..Len(calls) :
                 /\ SameTarget(calls[i], r) /\ Fetched(calls[i])
                 /\ now - calls[i].doneAt < GITHUB_CACHE_TTL) =>
                Last(calls').upstream = 0
           /\ (HasEntry(r) /\ EntryAge(r) > GITHUB_CACHE_TTL) =>
                Last(calls').pc = "upstream" /\ Last(calls').upstream = 1
      /\ \A c \in 1..MaxCalls : (PerformGitHubFetchSettles(c) /\ calls'[c].outcome[1].ok) =>
           githubCache'[cacheKey(calls[c].repo, calls[c].path)] =
             [data |-> calls'[c].outcome[1].files, timestamp |-> now] ]_vars

\* A fetch brought from upstream and, later within the TTL, a second fetch of
\* the same (repo, path) that was served from the cache: one upstream fetch
\* in total.
C24_Witness ==
  /\ Len(calls) = 2
  /\ SameTarget(calls[1], calls[2])
  /\ Fetched(calls[1])
  /\ calls[2].pc = "done" /\ calls[2].upstream = 0
  /\ calls[2].outcome = calls[1].outcome
  /\ calls[2].startedAt > calls[1].doneAt
  /\ calls[2].startedAt - calls[1].doneAt < GITHUB_CACHE_TTL
  /\ calls[1].upstream + calls[2].upstream = 1

\* C25: a fetch that has ended has the outcome, file list or error, that
\* its own request (repo, path, accessToken) has against upstream with a
\* cold cache.
C25_WarmCacheOutcomeIsColdOutcome ==
  \A c \in 1..Len(calls) :
    calls[c].pc = "done" =>
      calls[c].outcome = <<performGitHubFetch(calls[c].repo, calls[c].path, calls[c].accessToken)>>

\* C26: a fetch that finds an entry is served from it exactly when the age of
\* the entry is at most the TTL, an entry whose age equals the TTL included.
C26_EntryOfAgeTtlIsServed ==
  [][ \A r \in FetchRequests : (FetchFromGitHub(r) /\ HasEntry(r)) =>
        (Last(calls').upstream = 0 <=> EntryAge(r) <= GITHUB_CACHE_TTL) ]_vars

\* C29: the artifact cache is swept: no entry of githubCache is still stored
\* when it has been expired for a whole sweep interval.
C29_ExpiredArtifactEntriesAreSwept ==
  \A key \in DOMAIN githubCache :
    now - githubCache[key].timestamp <= GITHUB_CACHE_TTL + CLEANUP_INTERVAL

\* C30: every entry of githubCache holds the complete file list of one
\* (repo, path) that has its key, and every fetch that returns files returns
\* the complete file list of its own (repo, path).
C30_EntriesAndResultsBelongToTheirKey ==
  /\ \A key \in DOMAIN githubCache :
       \E r \in FetchRequests :
         /\ cacheKey(r.repo, r.path) = key
         /\ Resolved(githubCache[key].data) = performGitHubFetch(r.repo, r.path, ValidToken)
  /\ \A c \in 1..Len(calls) :
       (calls[c].pc = "done" /\ calls[c].outcome[1].ok) =>
         calls[c].outcome[1] = performGitHubFetch(calls[c].repo, calls[c].path, ValidToken)

\* C27: a scan whose fetch has resolved with no source file does not
\* complete: it ends FAILED.
C27_EmptyFetchFailsScan ==
  \A s \in Created :
    (hist[s].fetch = "ok" /\ exec[s].files = <<>>) => activeScans[s].status # "COMPLETED"

\* C28: the cache never holds more entries than its capacity, and a set of a
\* new key that finds the cache at capacity evicts exactly one entry, one of
\* the least hit count among the entries present.
C28_SizeWithinCapacity ==
  /\ [](Len(cache) <= MaxCacheSize)
  /\ [][ \A key \in CacheKeys : \A data \in CacheData : \A ttl \in CacheTtls :
           (Set(key, data, ttl) /\ IndexOfKey(cache, key) = 0 /\ Len(cache) = MaxCacheSize) =>
             \E i \in 1..Len(cache) :
               /\ \A j \in 1..Len(cache) : cache[i].hits <= cache[j].hits
               /\ cache' = Append(RemoveAt(cache, i), Last(cache')) ]_vars

\* The analysis results a scan has from its own files and agents, given the
\* analyzers that threw.
OwnResults(s) ==
  [i \in 1..Len(exec[s].agents) |->
     [agentId |-> AgentIdOf(exec[s].agents[i]),
      findings |-> triggerAgentAnalysis(s, exec[s].files, i \in hist[s].threw)]]

\* C31: a step of a scan, a vote submitted for it, and the start of a scan
\* leave the record of every other scan unchanged (no step that changes the
\* record of a scan is a step of another scan or the start of one), and the
\* status and the findings of a scan that has ended are those its own request, files,
\* agents and analyzer failures give; a fetch that finds a cache entry
\* resolves with the files another scan of the same repository and path
\* fetched.
C31_ScansAreIsolated ==
  /\ [][ /\ \A s \in ConcurrentIds :
              (\E b \in Created \ {s} : activeScans'[b] # activeScans[b]) =>
                /\ ~ConcurrentStep(s)
                /\ \A vote \in ConcurrentVoteInputs(s) : ~SubmitAgentVote(s, vote)
         /\ (\E b \in Created : activeScans'[b] # activeScans[b]) =>
              \A request \in Requests : ~StartScanWithin(request, ConcurrentScans)
         /\ \A n \in DOMAIN exec' \ Created :
              exec'[n].resolved # <<>> =>
                \E a \in Created :
                  /\ exec[a].request.githubRepo = exec'[n].request.githubRepo
                  /\ exec[a].request.githubPath = exec'[n].request.githubPath
                  /\ \/ exec[a].resolved = exec'[n].resolved
                     \/ hist[a].fetch = "ok" /\ <<exec[a].files>> = exec'[n].resolved
         /\ githubCache' # githubCache =>
              \A s \in ConcurrentIds : \A files \in RepoFileSets : ~FetchReturn(s, files) ]_vars
  /\ [](\A b \in Created :
          Terminal(activeScans[b].status) =>
            IF activeScans[b].status = "COMPLETED"
            THEN /\ hist[b].fetch = "ok"
                 /\ exec[b].agents = SelectAgents(runtimeAgents)
                 /\ activeScans[b].findings =
                      performAgentVoting(OwnResults(b), b).confirmedFindings
            ELSE activeScans[b].findings = <<>>)

\* Two scans that ran side by side and are both completed, a vote submitted
\* for each: the first one with confirmed findings, the second one, whose
\* fetch returned other files, stored when an entry of the first scan's age
\* had expired, and whose analyzer failed, with none.
C31_Witness ==
  /\ Cardinality(Created) >= 2
  /\ activeScans[1].status = "COMPLETED" /\ activeScans[1].findings # <<>>
  /\ activeScans[1].agentVotes # <<>> /\ activeScans[2].agentVotes # <<>>
  /\ activeScans[2].status = "COMPLETED" /\ activeScans[2].findings = <<>>
  /\ hist[2].threw # {} /\ hist[1].threw = {}
  /\ exec[1].files # exec[2].files
  /\ \E key \in DOMAIN githubCache :
       /\ githubCache[key].timestamp >= GITHUB_CACHE_TTL
       /\ githubCache[key].data = exec[2].files

\* C32: the record getScanResult returns is consistent in every state between
\* two steps: COMPLETED comes with progress 100, completedAt set and the
\* final findings, totalVotes, finalConfidenceScore and consensusReached;
\* FAILED comes with progress 100; any other status with progress below 100.
C32_ObservedRecordIsConsistent ==
  \A s \in Created :
    LET scan == activeScans[s] IN
      /\ scan.status = "COMPLETED" =>
           \E final \in { performAgentVoting(exec[s].analysisResults, s) } :
             /\ scan.progress = Num(100)
             /\ scan.completedAt # None
             /\ scan.findings = final.confirmedFindings
             /\ scan.totalVotes = final.totalVotes
             /\ scan.finalConfidenceScore = final.averageConfidence
             /\ scan.consensusReached = (Len(final.confirmedFindings) > 0)
      /\ scan.status = "FAILED" => scan.progress = Num(100)
      /\ ~Terminal(scan.status) => RatLess(scan.progress, Num(100))

\* A completed scan that holds confirmed findings, observed after a vote was
\* submitted for it.
C32_Witness ==
  \E s \in Created :
    /\ activeScans[s].status = "COMPLETED"
    /\ activeScans[s].findings # <<>>
    /\ activeScans[s].consensusReached
    /\ activeScans[s].totalVotes > Len(activeScans[s].findings)
    /\ activeScans[s].agentVotes # <<>>

\* C33: when a scan has reached the consensus step, each selected analyzer
\* has been invoked exactly once, in order, and the analysis results hold
\* exactly one entry per selected analyzer, in the order of the analyzers.
C33_OneResultPerSelectedAnalyzer ==
  \A s \in Created :
    (exec[s].pc = "voting" \/ activeScans[s].status = "COMPLETED") =>
      /\ exec[s].agents = SelectAgents(runtimeAgents)
      /\ hist[s].invoked = [i \in 1..Len(exec[s].agents) |-> i]
      /\ Len(exec[s].analysisResults) = Len(exec[s].agents)
      /\ \A i \in 1..Len(exec[s].agents) :
           exec[s].analysisResults[i].agentId = AgentIdOf(exec[s].agents[i])

\* A scan at the consensus step whose analyzers ran in two batches, the last
\* one smaller than the limit, one analyzer having failed.
C33_Witness ==
  \E s \in Created :
    /\ exec[s].pc = "voting"
    /\ Len(exec[s].agents) > CONCURRENCY_LIMIT
    /\ Len(exec[s].agents) % CONCURRENCY_LIMIT # 0
    /\ hist[s].threw # {}

ScanFindingIds(results, findings) ==
  UNION { { results[i].findings[j].id : j \in 1..Len(results[i].findings) } :
          i \in 1..Len(results) } \cup
  { findings[k].id : k \in 1..Len(findings) }

\* C35: when a scan is completed, the vote engine holds no pending vote and
\* no timer entry for any finding of the scan: the votes submitted for them
\* before have been cleared.
C35_CompletionClearsVotesOfScan ==
  [][ \A s \in ScanIds : CompleteScan(s) =>
        \A f \in ScanFindingIds(exec[s].analysisResults, activeScans'[s].findings) :
          /\ getVotes(pendingVotes', f) = <<>>
          /\ f \notin DOMAIN voteTimeouts' ]_vars

\* C36: voteTimeouts has an entry for a finding exactly when a timer of the
\* finding is armed, and the entry names that timer.
C36_TimerTableIsExact ==
  \A f \in TimerFindings \cup DOMAIN voteTimeouts :
    /\ f \in DOMAIN voteTimeouts <=> ArmedTimers(f) # {}
    /\ f \in DOMAIN voteTimeouts => ArmedTimers(f) = {voteTimeouts[f]}

\* C37: a set of a key the cache holds replaces the entry of the key where it
\* is, with hits 0, and leaves the entry of every other key as it was.
C37_SetOfPresentKeyOnlyReplaces ==
  [][ \A key \in CacheKeys : \A data \in CacheData : \A ttl \in CacheTtls :
        (Set(key, data, ttl) /\ IndexOfKey(cache, key) # 0) =>
          cache' = [cache EXCEPT ![IndexOfKey(cache, key)] =
                      [key |-> key, data |-> data, timestamp |-> now,
                       ttl |-> IF ttl # 0 THEN ttl ELSE DEFAULT_TTL, hits |-> 0]] ]_vars

\* The rank of a finding in the order of the report: CRITICAL, HIGH, MEDIUM,
\* LOW of a type without "gas", LOW of a type with "gas", INFO.
SeverityRank(finding) ==
  CASE finding.severity = "CRITICAL" -> 0
    [] finding.severity = "HIGH" -> 1
    [] finding.severity = "MEDIUM" -> 2
    [] finding.severity = "LOW" /\ ~TypeIncludesGas(finding.type) -> 3
    [] finding.severity = "LOW" /\ TypeIncludesGas(finding.type) -> 4
    [] finding.severity = "INFO" -> 5

\* C38: the confirmed findings of a completed scan hold at most one finding
\* per type and severity, have the ids scanId-confirmed-n, distinct from each
\* other and from the id of every finding an analyzer reported, and are in
\* the order of the severity rank and, at equal rank, of non-increasing
\* confidence.
C38_ConfirmedFindingsAreGroupedAndOrdered ==
  \A s \in Created :
    activeScans[s].status = "COMPLETED" =>
      LET fs == activeScans[s].findings
          raw == exec[s].analysisResults
      IN /\ \A i, j \in 1..Len(fs) :
              i # j => \/ fs[i].type # fs[j].type
                       \/ fs[i].severity # fs[j].severity
         /\ \A i, j \in 1..Len(fs) : i # j => fs[i].id # fs[j].id
         /\ \A i \in 1..Len(fs) :
              \E n \in 0..Len(fs) - 1 : fs[i].id = <<s, "confirmed", n>>
         /\ \A i \in 1..Len(fs) : \A r \in 1..Len(raw) :
              \A k \in 1..Len(raw[r].findings) : fs[i].id # raw[r].findings[k].id
         /\ \A i \in 1..Len(fs) - 1 :
              \/ SeverityRank(fs[i]) < SeverityRank(fs[i + 1])
              \/ /\ SeverityRank(fs[i]) = SeverityRank(fs[i + 1])
                 /\ fs[i].confidence >= fs[i + 1].confidence

\* A completed scan whose analyzers reported several findings per group: two
\* confirmed findings of the rank HIGH, of different confidence, stand in the
\* report in the order opposite to that of their confirmation, before one of
\* the rank MEDIUM and one of the rank LOW with "gas".
C38_Witness ==
  \E s \in Created :
    /\ activeScans[s].status = "COMPLETED"
    /\ activeScans[s].totalVotes > Len(activeScans[s].findings)
    /\ \E i, j \in 1..Len(activeScans[s].findings) :
         LET fs == activeScans[s].findings IN
           /\ i < j
           /\ SeverityRank(fs[i]) = 1 /\ SeverityRank(fs[j]) = 1
           /\ fs[i].confidence > fs[j].confidence
           /\ fs[i].id[3] > fs[j].id[3]
    /\ \E i, j \in 1..Len(activeScans[s].findings) :
         /\ SeverityRank(activeScans[s].findings[i]) = 2
         /\ SeverityRank(activeScans[s].findings[j]) = 4

====
